---- MODULE Spec2Model ----
(***************************************************************************)
(* Signal-generation engine of the Trading-System repository:              *)
(* strategies/strategy_base.py and the four strategy variants (MA101,      *)
(* Donchian, Swing, HTF).  Prices and indicator values are exact rationals *)
(* [num, den]; den = 0 encodes the float specials (0/0 = NaN, +-1/0 =      *)
(* +-inf), so an undefined indicator value is a value of the same shape.   *)
(***************************************************************************)
EXTENDS Integers, Sequences, FiniteSets, TLC

VARIABLES
    strategy,   \* the strategy object the operations run on (self)
    df,         \* the caller's bar series handed to the operations
    frame,      \* what generate_signals(df) returned (or raised)
    record,     \* what check_current_signal(df) returned (or raised)
    sizing,     \* arguments and outcome of calculate_position_size
    screen,     \* arguments and outcome of screen_universe
    scan,       \* the watchlist scan: its inputs, loop position and results
    call        \* an operation run on the caller's series, and the series before it

vars == <<strategy, df, frame, record, sizing, screen, scan, call>>

(***************************************************************************)
(* Bounds of the input space.                                              *)
(***************************************************************************)
MaxLen == 4          \* free bars at the end of a series
MaxLongTail == 2     \* free bars at the end of a long series
LongPrefix == 49     \* constant bars in front of the free bars of a long series
ScenarioLen == 300   \* bars of the rising and of the constant series
MaxSymbols == 2      \* symbols in a symbol list

(***************************************************************************)
(* Float arithmetic, as exact rationals.                                   *)
(***************************************************************************)
Abs(x) == IF x < 0 THEN -x ELSE x

Sign(x) == IF x < 0 THEN -1 ELSE IF x > 0 THEN 1 ELSE 0

RECURSIVE GCD(_, _)
GCD(a, b) == IF b = 0 THEN a ELSE GCD(b, a % b)

NaN == [num |-> 0, den |-> 0]

Rat(n, d) ==
    IF d = 0 THEN [num |-> Sign(n), den |-> 0]
    ELSE LET g == GCD(Abs(n), Abs(d))
         IN  [num |-> (Sign(d) * n) \div g, den |-> Abs(d) \div g]

R(i) == [num |-> i, den |-> 1]

IsNaN(x) == x.den = 0 /\ x.num = 0

IsDefined(x) == x.den # 0

RAdd(a, b) == Rat(a.num * b.den + b.num * a.den, a.den * b.den)

RSub(a, b) == Rat(a.num * b.den - b.num * a.den, a.den * b.den)

RMul(a, b) == Rat(a.num * b.num, a.den * b.den)

RDiv(a, b) == Rat(a.num * b.den, a.den * b.num)

RNeg(a) == [num |-> -a.num, den |-> a.den]

RAbs(a) == [num |-> Abs(a.num), den |-> a.den]

\* comparisons involving NaN are False, as for floats
RLt(a, b) == ~IsNaN(a) /\ ~IsNaN(b) /\ a.num * b.den < b.num * a.den

RLe(a, b) == ~IsNaN(a) /\ ~IsNaN(b) /\ a.num * b.den <= b.num * a.den

RGt(a, b) == RLt(b, a)

RGe(a, b) == RLe(b, a)

REq(a, b) == ~IsNaN(a) /\ ~IsNaN(b) /\ a = b

\* rounding up in place of int(x)
TruncUp(a) == IF a.num % a.den = 0 THEN a.num \div a.den ELSE (a.num \div a.den) + 1

\* int(x) of a finite number: truncation toward zero
Trunc(a) == IF a.num >= 0 THEN a.num \div a.den ELSE -((-a.num) \div a.den)

(***************************************************************************)
(* Bar series (DataFrame with OHLCV columns, one row per trading date).    *)
(***************************************************************************)
ColumnNames == {"open", "high", "low", "close", "volume"}

MkBar(c, h, l, v) == [open |-> c, high |-> h, low |-> l, close |-> c, volume |-> v]

BaseBar == MkBar(2, 2, 2, 1)

BarSet == { MkBar(1, 1, 1, 1), BaseBar, MkBar(6, 6, 1, 3), MkBar(8, 9, 8, 1) }

Repeat(x, n) == [i \in 1..n |-> x]

RECURSIVE SeqsUpTo(_, _)
SeqsUpTo(S, n) ==
    IF n = 0 THEN { <<>> }
    ELSE LET shorter == SeqsUpTo(S, n - 1)
         IN  shorter \cup { Append(s, x) : s \in { q \in shorter : Len(q) = n - 1 }, x \in S }

Tails == SeqsUpTo(BarSet, MaxLen)

LongTails == SeqsUpTo(BarSet, MaxLongTail)

\* the index (dates) of a well-formed series is strictly increasing
Dates(n) == [t \in 1..n |-> t]

\* the same index with its last two dates exchanged
SwappedDates(n) == [t \in 1..n |-> IF t = n THEN n - 1 ELSE IF t = n - 1 THEN n ELSE t]

\* well-formed series: p copies of BaseBar followed by free bars
SeriesOver(p, tails) ==
    { [cols |-> ColumnNames, index |-> Dates(p + Len(tl)), rows |-> Repeat(BaseBar, p) \o tl] :
        tl \in tails }

ShortSeries == SeriesOver(0, Tails)

LongSeries == SeriesOver(LongPrefix, LongTails)

\* series with non-monotonic dates, and series that lack a column
MalformedSeries ==
    { [cols |-> ColumnNames, index |-> SwappedDates(Len(tl)), rows |-> tl] :
        tl \in { q \in Tails : Len(q) = MaxLen - 1 } }
    \cup
    { [cols |-> ColumnNames \ {c}, index |-> Dates(Len(tl)), rows |-> tl] :
        c \in ColumnNames, tl \in { q \in Tails : Len(q) = MaxLen - 2 } }

\* rising closes, by a into an even bar and by b into an odd bar, with
\* high = close + 1 and low = close - 1
RisingClose(a, b, t) == 2 + a * (t \div 2) + b * ((t - 1) \div 2)

Steps == {1, 2, 3}

RisingSeries ==
    { [cols  |-> ColumnNames,
       index |-> Dates(ScenarioLen),
       rows  |-> [t \in 1..ScenarioLen |->
                    [open  |-> RisingClose(a, b, t),     high   |-> RisingClose(a, b, t) + 1,
                     low   |-> RisingClose(a, b, t) - 1, close  |-> RisingClose(a, b, t),
                     volume |-> 1]]] : a \in Steps, b \in Steps }

\* constant price and constant volume
FlatSeries ==
    { [cols  |-> ColumnNames,
       index |-> Dates(ScenarioLen),
       rows  |-> Repeat(MkBar(pv[1], pv[1], pv[1], pv[2]), ScenarioLen)] :
        pv \in { <<1, 1>>, <<2, 3>>, <<100, 1000000>> } }

\* constant bars, then a breakout bar on volume whose high equals its low
ZeroRiskSeries == SeriesOver(LongPrefix, { << MkBar(6, 6, 6, 3) >> })

StrictlyIncreasing(ix) == \A t \in 1..(Len(ix) - 1) : ix[t] < ix[t + 1]

WellFormed(d) == d.cols = ColumnNames /\ StrictlyIncreasing(d.index)

(***************************************************************************)
(* Indicator library (pandas Series operations).                           *)
(***************************************************************************)
Col(d, c) == [t \in 1..Len(d.rows) |-> R(d.rows[t][c])]

shift(col, k) == [t \in 1..Len(col) |-> IF t - k >= 1 THEN col[t - k] ELSE NaN]

\* the ranges are folded by halves, which keeps the evaluation shallow
RECURSIVE SumRange(_, _, _)
SumRange(col, lo, hi) ==
    IF lo > hi THEN R(0)
    ELSE IF lo = hi THEN col[lo]
    ELSE LET mid == (lo + hi) \div 2
         IN  RAdd(SumRange(col, lo, mid), SumRange(col, mid + 1, hi))

RMax2(a, b) == IF IsNaN(a) \/ IsNaN(b) THEN NaN ELSE IF RLt(a, b) THEN b ELSE a

RMin2(a, b) == IF IsNaN(a) \/ IsNaN(b) THEN NaN ELSE IF RLt(b, a) THEN b ELSE a

RECURSIVE MaxRange(_, _, _)
MaxRange(col, lo, hi) ==
    IF lo = hi THEN col[lo]
    ELSE LET mid == (lo + hi) \div 2
         IN  RMax2(MaxRange(col, lo, mid), MaxRange(col, mid + 1, hi))

RECURSIVE MinRange(_, _, _)
MinRange(col, lo, hi) ==
    IF lo = hi THEN col[lo]
    ELSE LET mid == (lo + hi) \div 2
         IN  RMin2(MinRange(col, lo, mid), MinRange(col, mid + 1, hi))

\* rolling(window=w, min_periods=1).mean(): the mean of the bars seen so far
rolling_mean_min_periods_1(col, w) ==
    [t \in 1..Len(col) |->
        IF t < w THEN RDiv(SumRange(col, 1, t), R(t))
        ELSE RDiv(SumRange(col, t - w + 1, t), R(w))]

\* Series.rolling(window=w).mean(): undefined until the window is filled
rolling_mean(col, w) ==
    [t \in 1..Len(col) |-> IF t < w THEN NaN ELSE RDiv(SumRange(col, t - w + 1, t), R(w))]

rolling_max(col, w) ==
    [t \in 1..Len(col) |-> IF t < w THEN NaN ELSE MaxRange(col, t - w + 1, t)]

rolling_min(col, w) ==
    [t \in 1..Len(col) |-> IF t < w THEN NaN ELSE MinRange(col, t - w + 1, t)]

\* the same step with Wilder's smoothing factor alpha = 1 / span
EwmStep_wilder(acc, col, span, t) ==
    IF t = 1 THEN << col[1] >>
    ELSE LET alpha == Rat(1, span)
         IN  Append(acc, RAdd(RMul(RSub(R(1), alpha), acc[t - 1]), RMul(alpha, col[t])))

\* Series.ewm(span=span, adjust=False).mean()
\* y[1] = x[1], y[t] = (1 - alpha) * y[t-1] + alpha * x[t], alpha = 2 / (span + 1)
EwmStep(acc, col, span, t) ==
    IF t = 1 THEN << col[1] >>
    ELSE LET alpha == Rat(2, span + 1)
         IN  Append(acc, RAdd(RMul(RSub(R(1), alpha), acc[t - 1]), RMul(alpha, col[t])))

\* acc holds y[1..lo-1]; the result holds y[1..hi].  The left half is
\* computed (its length taken) before the right half is entered.
RECURSIVE EwmExtend(_, _, _, _, _)
EwmExtend(acc, col, span, lo, hi) ==
    IF lo > hi THEN acc
    ELSE IF lo = hi THEN EwmStep(acc, col, span, lo)
    ELSE LET mid  == (lo + hi) \div 2
             left == EwmExtend(acc, col, span, lo, mid)
         IN  IF Len(left) = mid
             THEN EwmExtend(left, col, span, mid + 1, hi)
             ELSE <<>>

ewm_mean(col, span) == EwmExtend(<<>>, col, span, 1, Len(col))

\* DataFrame.max(axis=1) skips undefined entries
RMaxSkipNa(a, b) == IF IsNaN(a) THEN b ELSE IF IsNaN(b) THEN a ELSE RMax2(a, b)

calculate_rsi(series, period) ==
    LET n     == Len(series)
        delta == [t \in 1..n |-> RSub(series[t], shift(series, 1)[t])]
        up    == [t \in 1..n |-> IF RGt(delta[t], R(0)) THEN delta[t] ELSE R(0)]
        down  == [t \in 1..n |-> IF RLt(delta[t], R(0)) THEN delta[t] ELSE R(0)]
        gain  == rolling_mean(up, period)
        loss  == rolling_mean([t \in 1..n |-> RNeg(down[t])], period)
    IN  [t \in 1..n |->
            RSub(R(100), RDiv(R(100), RAdd(R(1), RDiv(gain[t], loss[t]))))]

calculate_atr(d, period) ==
    LET high  == Col(d, "high")
        low   == Col(d, "low")
        prev  == shift(Col(d, "close"), 1)
        tr    == [t \in 1..Len(d.rows) |->
                    RMaxSkipNa(RMaxSkipNa(RSub(high[t], low[t]),
                                          RAbs(RSub(high[t], prev[t]))),
                               RAbs(RSub(low[t], prev[t])))]
    IN  rolling_mean(tr, period)

(***************************************************************************)
(* Shared shapes of the results.                                           *)
(***************************************************************************)
Get(config, key, default) == IF key \in DOMAIN config THEN config[key] ELSE default

NoReason == [fmt |-> "", args |-> <<>>]

KeyError(c, k) == [kind |-> "raise", error |-> "KeyError", column |-> c, indicators |-> k]

\* first column of reads (pairs <<column, indicator columns assigned so far>>)
\* that the frame lacks, as the KeyError its read raises; <<>> if none
RECURSIVE FirstMissing(_, _, _)
FirstMissing(d, reads, i) ==
    IF i > Len(reads) THEN <<>>
    ELSE IF reads[i][1] \notin d.cols THEN << KeyError(reads[i][1], reads[i][2]) >>
    ELSE FirstMissing(d, reads, i + 1)

FlatRow == [signal |-> 0, entry_price |-> NaN, stop_price |-> NaN, reason |-> NoReason]

None == [kind |-> "None"]

NotCalled == [kind |-> "not_called"]

EmptyConfig == [k \in {} |-> 0]

\* df['symbol'] = symbol: the series with a symbol column holding symbol
WithSymbol(d, symbol) ==
    [cols |-> d.cols \cup {"symbol"}, index |-> d.index, rows |-> d.rows, symbol |-> symbol]

\* latest.get('symbol', 'Unknown')
SymbolOf(d) == IF "symbol" \in d.cols THEN d.symbol ELSE "Unknown"

(***************************************************************************)
(* MA101Strategy (strategies/ma101_strategy.py).                           *)
(***************************************************************************)
MA101_init(config) ==
    [variant    |-> "MA101",
     regime_ma  |-> Get(config, "regime_ma", 200),
     fast_ema   |-> Get(config, "fast_ema", 10),
     slow_ema   |-> Get(config, "slow_ema", 30),
     rsi_period |-> Get(config, "rsi_period", 14),
     stop_ma    |-> Get(config, "stop_ma", 10)]

MA101_reads == << <<"close", 0>>, <<"high", 5>>, <<"low", 5>> >>

MA101_calculate_indicators(self, d) ==
    LET close == Col(d, "close")
    IN  [sma_regime |-> rolling_mean(close, self.regime_ma),
         ema_fast   |-> ewm_mean(close, self.fast_ema),
         ema_slow   |-> ewm_mean(close, self.slow_ema),
         ema_stop   |-> ewm_mean(close, self.stop_ma),
         rsi        |-> calculate_rsi(close, self.rsi_period),
         atr_14     |-> calculate_atr(d, 14)]

\* the cross-above alone, without the regime filter
MA101_cross_above_only(self, d, ind, t) ==
    /\ RLe(shift(ind.ema_fast, 1)[t], shift(ind.ema_slow, 1)[t])
    /\ RGt(ind.ema_fast[t], ind.ema_slow[t])

MA101_entry_signal(self, d, ind, t) ==
    /\ RLe(shift(ind.ema_fast, 1)[t], shift(ind.ema_slow, 1)[t])
    /\ RGt(ind.ema_fast[t], ind.ema_slow[t])
    /\ RGt(R(d.rows[t].close), ind.sma_regime[t])

MA101_generate_signals(self, d) ==
    LET missing == FirstMissing(d, MA101_reads, 1)
        ind     == MA101_calculate_indicators(self, d)
    IN  IF missing # <<>> THEN missing[1]
        ELSE [kind |-> "ok",
              rows |-> [t \in 1..Len(d.rows) |->
                  IF MA101_entry_signal(self, d, ind, t)
                  THEN [signal      |-> 1,
                        entry_price |-> R(d.rows[t].close),
                        stop_price  |-> ind.ema_stop[t],
                        reason      |-> [fmt  |-> "EMA {}/{} cross above, price > SMA {}",
                                         args |-> <<self.fast_ema, self.slow_ema, self.regime_ma>>]]
                  ELSE FlatRow]]

SignedRisk(latest) == RSub(latest.entry_price, latest.stop_price)

MA101_check_current_signal(self, d) ==
    LET out == MA101_generate_signals(self, d)
    IN  IF out.kind = "raise" THEN out
        ELSE IF Len(d.rows) = 0 THEN None
        ELSE LET latest == out.rows[Len(d.rows)]
             IN  IF latest.signal = 1
                 THEN [kind           |-> "record",
                       symbol         |-> SymbolOf(d),
                       date           |-> d.index[Len(d.rows)],
                       signal         |-> "LONG",
                       entry_price    |-> latest.entry_price,
                       stop_price     |-> latest.stop_price,
                       reason         |-> latest.reason,
                       risk_per_share |-> SignedRisk(latest)]
                 ELSE None

(***************************************************************************)
(* DonchianStrategy (strategies/donchian_strategy.py).                     *)
(***************************************************************************)
Donchian_init(config) ==
    [variant           |-> "Donchian",
     entry_period      |-> Get(config, "entry_period", 50),
     exit_period       |-> Get(config, "exit_period", 25),
     atr_period        |-> Get(config, "atr_period", 14),
     atr_stop_multiple |-> Get(config, "atr_stop_multiple", R(3)),
     use_atr_stop      |-> Get(config, "use_atr_stop", FALSE),
     allow_shorts      |-> Get(config, "allow_shorts", FALSE)]

Donchian_reads == << <<"high", 0>>, <<"low", 1>>, <<"close", 4>> >>

\* the channels taken over the window that ends at the current bar
Donchian_channels_unshifted(self, d) ==
    LET high == Col(d, "high")
        low  == Col(d, "low")
    IN  [entry_high |-> rolling_max(high, self.entry_period),
         entry_low  |-> rolling_min(low, self.entry_period),
         exit_high  |-> rolling_max(high, self.exit_period),
         exit_low   |-> rolling_min(low, self.exit_period),
         atr        |-> calculate_atr(d, self.atr_period)]

Donchian_calculate_indicators(self, d) ==
    LET high == shift(Col(d, "high"), 1)
        low  == shift(Col(d, "low"), 1)
    IN  [entry_high |-> rolling_max(high, self.entry_period),
         entry_low  |-> rolling_min(low, self.entry_period),
         exit_high  |-> rolling_max(high, self.exit_period),
         exit_low   |-> rolling_min(low, self.exit_period),
         atr        |-> calculate_atr(d, self.atr_period)]

\* the long breakout test with >= in place of >
Donchian_long_breakout_inclusive(d, ind, t) == RGe(R(d.rows[t].close), ind.entry_high[t])

Donchian_long_breakout(d, ind, t) == RGt(R(d.rows[t].close), ind.entry_high[t])

\* the short breakout tested against the exit channel
Donchian_short_breakout_exit_channel(d, ind, t) == RLt(R(d.rows[t].close), ind.exit_low[t])

Donchian_short_breakout(d, ind, t) == RLt(R(d.rows[t].close), ind.entry_low[t])

\* the long stop read from the entry channel
Donchian_stop_price_entry_channel(self, d, ind, t) ==
    IF self.use_atr_stop
    THEN RSub(R(d.rows[t].close), RMul(self.atr_stop_multiple, ind.atr[t]))
    ELSE ind.entry_low[t]

Donchian_stop_price(self, d, ind, t) ==
    IF self.use_atr_stop
    THEN RSub(R(d.rows[t].close), RMul(self.atr_stop_multiple, ind.atr[t]))
    ELSE ind.exit_low[t]

\* the short stop read from the exit channel in either mode
Donchian_stop_price_short_channel_only(self, d, ind, t) == ind.exit_high[t]

Donchian_stop_price_short(self, d, ind, t) ==
    IF self.use_atr_stop
    THEN RAdd(R(d.rows[t].close), RMul(self.atr_stop_multiple, ind.atr[t]))
    ELSE ind.exit_high[t]

Donchian_generate_signals(self, d) ==
    LET missing == FirstMissing(d, Donchian_reads, 1)
        ind     == Donchian_calculate_indicators(self, d)
        long(t) == IF Donchian_long_breakout(d, ind, t)
                   THEN [signal      |-> 1,
                         entry_price |-> R(d.rows[t].close),
                         stop_price  |-> Donchian_stop_price(self, d, ind, t),
                         reason      |-> [fmt |-> "{}-day breakout high",
                                          args |-> <<self.entry_period>>]]
                   ELSE FlatRow
    IN  IF missing # <<>> THEN missing[1]
        ELSE [kind |-> "ok",
              rows |-> [t \in 1..Len(d.rows) |->
                  IF self.allow_shorts /\ Donchian_short_breakout(d, ind, t)
                  THEN [signal      |-> -1,
                        entry_price |-> R(d.rows[t].close),
                        stop_price  |-> Donchian_stop_price_short(self, d, ind, t),
                        reason      |-> [fmt |-> "{}-day breakdown low",
                                         args |-> <<self.entry_period>>]]
                  ELSE long(t)]]

AbsRisk(latest) == RAbs(RSub(latest.entry_price, latest.stop_price))

\* check_current_signal reading df.iloc[0] in place of df.iloc[-1]
Donchian_check_first_row(self, d) ==
    LET out == Donchian_generate_signals(self, d)
    IN  IF out.kind = "raise" THEN out
        ELSE IF Len(d.rows) = 0 THEN None
        ELSE LET latest == out.rows[1]
             IN  IF latest.signal # 0
                 THEN [kind           |-> "record",
                       symbol         |-> SymbolOf(d),
                       date           |-> d.index[1],
                       signal         |-> IF latest.signal = 1 THEN "LONG" ELSE "SHORT",
                       entry_price    |-> latest.entry_price,
                       stop_price     |-> latest.stop_price,
                       reason         |-> latest.reason,
                       risk_per_share |-> AbsRisk(latest)]
                 ELSE None

Donchian_check_current_signal(self, d) ==
    LET out == Donchian_generate_signals(self, d)
    IN  IF out.kind = "raise" THEN out
        ELSE IF Len(d.rows) = 0 THEN None
        ELSE LET latest == out.rows[Len(d.rows)]
             IN  IF latest.signal # 0
                 THEN [kind           |-> "record",
                       symbol         |-> SymbolOf(d),
                       date           |-> d.index[Len(d.rows)],
                       signal         |-> IF latest.signal = 1 THEN "LONG" ELSE "SHORT",
                       entry_price    |-> latest.entry_price,
                       stop_price     |-> latest.stop_price,
                       reason         |-> latest.reason,
                       risk_per_share |-> AbsRisk(latest)]
                 ELSE None

(***************************************************************************)
(* SwingTradingStrategy (strategies/swing_trading_strategy.py).            *)
(***************************************************************************)
Swing_init(config) ==
    [variant    |-> "Swing",
     fast_ema   |-> Get(config, "fast_ema", 5),
     slow_ema   |-> Get(config, "slow_ema", 20),
     ma_50      |-> Get(config, "ma_50", 50),
     ma_200     |-> Get(config, "ma_200", 200),
     rsi_period |-> Get(config, "rsi_period", 14),
     atr_period |-> Get(config, "atr_period", 14),
     entry_mode |-> Get(config, "entry_mode", "all")]

Swing_reads == << <<"close", 0>>, <<"high", 5>>, <<"low", 5>> >>

Swing_calculate_indicators(self, d) ==
    LET close == Col(d, "close")
    IN  [ema_fast |-> ewm_mean(close, self.fast_ema),
         ema_slow |-> ewm_mean(close, self.slow_ema),
         sma_50   |-> rolling_mean(close, self.ma_50),
         sma_200  |-> rolling_mean(close, self.ma_200),
         rsi      |-> calculate_rsi(close, self.rsi_period),
         atr      |-> calculate_atr(d, self.atr_period)]

Swing_cross_above(ind, t) ==
    /\ RLe(shift(ind.ema_fast, 1)[t], shift(ind.ema_slow, 1)[t])
    /\ RGt(ind.ema_fast[t], ind.ema_slow[t])

\* the dip-buy condition against one moving-average column
Swing_dip(d, ma, t) ==
    /\ RLe(R(d.rows[t].low), ma[t])
    /\ RGt(R(d.rows[t].close), ma[t])
    /\ RGt(shift(Col(d, "close"), 1)[t], shift(ma, 1)[t])

Swing_dip_50(d, ind, t) == Swing_dip(d, ind.sma_50, t)

Swing_dip_200(d, ind, t) == Swing_dip(d, ind.sma_200, t)

Swing_FlatRow == [signal |-> 0, entry_price |-> NaN, stop_price |-> NaN,
                  reason |-> NoReason, entry_type |-> ""]

Swing_crossover_modes == {"crossover", "all"}

Swing_dip_50_modes == {"dip_50", "all"}

\* the mode list of pattern 2 repeated for pattern 3
Swing_dip_200_modes_copied == {"dip_50", "dip_200", "all"}

Swing_dip_200_modes == {"dip_200", "all"}

\* rows after ENTRY PATTERN 1
Swing_pattern1(self, d, ind, rows) ==
    IF self.entry_mode \in Swing_crossover_modes
    THEN [t \in 1..Len(d.rows) |->
            IF Swing_cross_above(ind, t)
            THEN [signal      |-> 1,
                  entry_price |-> R(d.rows[t].close),
                  stop_price  |-> ind.ema_slow[t],
                  reason      |-> [fmt |-> "EMA {}/{} bullish cross",
                                   args |-> <<self.fast_ema, self.slow_ema>>],
                  entry_type  |-> "crossover"]
            ELSE rows[t]]
    ELSE rows

\* ENTRY PATTERN 2 without the test that the bar is still unmarked
Swing_pattern2_overwriting(self, d, ind, rows) ==
    IF self.entry_mode \in Swing_dip_50_modes
    THEN [t \in 1..Len(d.rows) |->
            IF Swing_dip_50(d, ind, t)
            THEN [signal      |-> 1,
                  entry_price |-> R(d.rows[t].close),
                  stop_price  |-> RMul(ind.sma_50[t], Rat(98, 100)),
                  reason      |-> [fmt |-> "50-day MA dip-buy (bounce)", args |-> <<>>],
                  entry_type  |-> "dip_50"]
            ELSE rows[t]]
    ELSE rows

\* rows after ENTRY PATTERN 2
Swing_pattern2(self, d, ind, rows) ==
    IF self.entry_mode \in Swing_dip_50_modes
    THEN [t \in 1..Len(d.rows) |->
            IF Swing_dip_50(d, ind, t) /\ rows[t].signal = 0
            THEN [signal      |-> 1,
                  entry_price |-> R(d.rows[t].close),
                  stop_price  |-> RMul(ind.sma_50[t], Rat(98, 100)),
                  reason      |-> [fmt |-> "50-day MA dip-buy (bounce)", args |-> <<>>],
                  entry_type  |-> "dip_50"]
            ELSE rows[t]]
    ELSE rows

\* rows after ENTRY PATTERN 3
Swing_pattern3(self, d, ind, rows) ==
    IF self.entry_mode \in Swing_dip_200_modes
    THEN [t \in 1..Len(d.rows) |->
            IF Swing_dip_200(d, ind, t) /\ rows[t].signal = 0
            THEN [signal      |-> 1,
                  entry_price |-> R(d.rows[t].close),
                  stop_price  |-> RMul(ind.sma_200[t], Rat(97, 100)),
                  reason      |-> [fmt |-> "200-day MA deep dip-buy", args |-> <<>>],
                  entry_type  |-> "dip_200"]
            ELSE rows[t]]
    ELSE rows

Swing_generate_signals(self, d) ==
    LET missing == FirstMissing(d, Swing_reads, 1)
        ind     == Swing_calculate_indicators(self, d)
        rows0   == [t \in 1..Len(d.rows) |-> Swing_FlatRow]
        rows1   == Swing_pattern1(self, d, ind, rows0)
        rows2   == Swing_pattern2(self, d, ind, rows1)
        rows3   == Swing_pattern3(self, d, ind, rows2)
    IN  IF missing # <<>> THEN missing[1]
        ELSE [kind |-> "ok", rows |-> rows3]

Swing_check_current_signal(self, d) ==
    LET out == Swing_generate_signals(self, d)
    IN  IF out.kind = "raise" THEN out
        ELSE IF Len(d.rows) = 0 THEN None
        ELSE LET latest == out.rows[Len(d.rows)]
             IN  IF latest.signal = 1
                 THEN [kind           |-> "record",
                       symbol         |-> SymbolOf(d),
                       date           |-> d.index[Len(d.rows)],
                       signal         |-> "LONG",
                       entry_price    |-> latest.entry_price,
                       stop_price     |-> latest.stop_price,
                       reason         |-> latest.reason,
                       entry_type     |-> latest.entry_type,
                       risk_per_share |-> SignedRisk(latest)]
                 ELSE None

(***************************************************************************)
(* QullamaggieHTFStrategy (strategies/qullamaggie_htf_strategy.py).        *)
(***************************************************************************)
HTF_init(config) ==
    [variant                    |-> "HTF",
     ema_10                     |-> 10,
     sma_20                     |-> 20,
     ma_50                      |-> 50,
     volume_lookback            |-> Get(config, "volume_lookback", 20),
     volume_breakout_multiplier |-> Get(config, "volume_multiplier", Rat(3, 2)),
     min_dollar_volume          |-> Get(config, "min_dollar_volume", 50000000),
     pole_lookback              |-> Get(config, "pole_lookback", 40),
     min_pole_move              |-> Get(config, "min_pole_move", Rat(1, 2)),
     max_flag_retrace           |-> Get(config, "max_flag_retrace", Rat(1, 4))]

HTF_reads == << <<"close", 0>>, <<"volume", 3>>, <<"high", 7>>, <<"low", 8>> >>

HTF_calculate_indicators(self, d) ==
    LET close      == Col(d, "close")
        volume     == Col(d, "volume")
        avg_volume == rolling_mean(volume, self.volume_lookback)
        dollar     == [t \in 1..Len(d.rows) |-> RMul(close[t], volume[t])]
    IN  [ema_10            |-> ewm_mean(close, self.ema_10),
         sma_20            |-> rolling_mean(close, self.sma_20),
         sma_50            |-> rolling_mean(close, self.ma_50),
         avg_volume        |-> avg_volume,
         volume_ratio      |-> [t \in 1..Len(d.rows) |-> RDiv(volume[t], avg_volume[t])],
         avg_dollar_volume |-> rolling_mean(dollar, self.volume_lookback),
         high_20           |-> rolling_max(Col(d, "high"), 20),
         low_20            |-> rolling_min(Col(d, "low"), 20),
         pole_move         |-> [t \in 1..Len(d.rows) |->
                                  RSub(RDiv(close[t], shift(close, self.pole_lookback)[t]), R(1))]]

HTF_liquidity_ok(self, ind, t) == RGe(ind.avg_dollar_volume[t], R(self.min_dollar_volume))

HTF_above_50ma(d, ind, t) == RGt(R(d.rows[t].close), ind.sma_50[t])

HTF_strong_pole(self, ind, t) == RGe(ind.pole_move[t], self.min_pole_move)

HTF_near_highs(d, ind, t) == RGe(R(d.rows[t].close), RMul(ind.high_20[t], Rat(90, 100)))

HTF_tight(d, ind, t) ==
    /\ RGe(R(d.rows[t].close), ind.ema_10[t])
    /\ RGe(R(d.rows[t].close), ind.sma_20[t])

HTF_breakout(d, ind, t) == RGt(R(d.rows[t].high), shift(ind.high_20, 1)[t])

HTF_volume_confirmation(self, ind, t) ==
    RGe(ind.volume_ratio[t], self.volume_breakout_multiplier)

\* the conjunction with a further filter that drops bars without risk
HTF_signal_positive_risk(self, d, ind, t) ==
    /\ HTF_liquidity_ok(self, ind, t)
    /\ HTF_above_50ma(d, ind, t)
    /\ HTF_strong_pole(self, ind, t)
    /\ HTF_near_highs(d, ind, t)
    /\ HTF_tight(d, ind, t)
    /\ HTF_breakout(d, ind, t)
    /\ HTF_volume_confirmation(self, ind, t)
    /\ d.rows[t].high > d.rows[t].low

\* the conjunction without the volume confirmation
HTF_signal_without_volume(self, d, ind, t) ==
    /\ HTF_liquidity_ok(self, ind, t)
    /\ HTF_above_50ma(d, ind, t)
    /\ HTF_strong_pole(self, ind, t)
    /\ HTF_near_highs(d, ind, t)
    /\ HTF_tight(d, ind, t)
    /\ HTF_breakout(d, ind, t)

HTF_signal(self, d, ind, t) ==
    /\ HTF_liquidity_ok(self, ind, t)
    /\ HTF_above_50ma(d, ind, t)
    /\ HTF_strong_pole(self, ind, t)
    /\ HTF_near_highs(d, ind, t)
    /\ HTF_tight(d, ind, t)
    /\ HTF_breakout(d, ind, t)
    /\ HTF_volume_confirmation(self, ind, t)

HTF_generate_signals(self, d) ==
    LET missing == FirstMissing(d, HTF_reads, 1)
        ind     == HTF_calculate_indicators(self, d)
    IN  IF missing # <<>> THEN missing[1]
        ELSE [kind |-> "ok",
              rows |-> [t \in 1..Len(d.rows) |->
                  IF HTF_signal(self, d, ind, t)
                  THEN [signal      |-> 1,
                        entry_price |-> R(d.rows[t].high),
                        stop_price  |-> R(d.rows[t].low),
                        reason      |-> [fmt |-> "HTF breakout: strong leader, pole+flag, volume",
                                         args |-> <<>>]]
                  ELSE FlatRow]]

HTF_check_current_signal(self, d) ==
    LET out == HTF_generate_signals(self, d)
    IN  IF out.kind = "raise" THEN out
        ELSE IF Len(d.rows) = 0 THEN None
        ELSE LET latest == out.rows[Len(d.rows)]
             IN  IF latest.signal = 1
                 THEN [kind           |-> "record",
                       symbol         |-> SymbolOf(d),
                       date           |-> d.index[Len(d.rows)],
                       signal         |-> "LONG",
                       entry_price    |-> latest.entry_price,
                       stop_price     |-> latest.stop_price,
                       reason         |-> latest.reason,
                       risk_per_share |-> SignedRisk(latest)]
                 ELSE None

(***************************************************************************)
(* StrategyBase.calculate_position_size (strategies/strategy_base.py).     *)
(***************************************************************************)
Return(v) == [kind |-> "return", value |-> v]

ZeroDivisionError == [kind |-> "raise", error |-> "ZeroDivisionError"]

Min(a, b) == IF a <= b THEN a ELSE b

risk_pct_of(position_sizing) ==
    Get(Get(position_sizing, "default_params", EmptyConfig), "risk_pct", Rat(1, 100))

max_position_pct_of(RISK_CONFIG) == Get(RISK_CONFIG, "max_position_risk_pct", Rat(2, 100))

\* the position limit computed ahead of the zero-risk test
position_size_cap_first(position_sizing, RISK_CONFIG, entry_price, stop_price, account_equity) ==
    LET risk_pct         == risk_pct_of(position_sizing)
        risk_dollars     == RMul(account_equity, risk_pct)
        risk_per_share   == RAbs(RSub(entry_price, stop_price))
        shares           == Trunc(RDiv(risk_dollars, risk_per_share))
        max_position_pct == max_position_pct_of(RISK_CONFIG)
        max_shares       == Trunc(RDiv(RMul(account_equity, max_position_pct), entry_price))
    IN  IF entry_price.num = 0 THEN ZeroDivisionError
        ELSE IF REq(risk_per_share, R(0)) THEN Return(0)
        ELSE Return(Min(shares, max_shares))

\* the position limit not applied
position_size_uncapped(position_sizing, RISK_CONFIG, entry_price, stop_price, account_equity) ==
    LET risk_pct         == risk_pct_of(position_sizing)
        risk_dollars     == RMul(account_equity, risk_pct)
        risk_per_share   == RAbs(RSub(entry_price, stop_price))
        shares           == Trunc(RDiv(risk_dollars, risk_per_share))
    IN  IF REq(risk_per_share, R(0)) THEN Return(0)
        ELSE IF entry_price.num = 0 THEN ZeroDivisionError
        ELSE Return(shares)

calculate_position_size(position_sizing, RISK_CONFIG, entry_price, stop_price, account_equity) ==
    LET risk_pct         == risk_pct_of(position_sizing)
        risk_dollars     == RMul(account_equity, risk_pct)
        risk_per_share   == RAbs(RSub(entry_price, stop_price))
        shares           == Trunc(RDiv(risk_dollars, risk_per_share))
        max_position_pct == max_position_pct_of(RISK_CONFIG)
        max_shares       == Trunc(RDiv(RMul(account_equity, max_position_pct), entry_price))
    IN  IF REq(risk_per_share, R(0)) THEN Return(0)
        ELSE IF entry_price.num = 0 THEN ZeroDivisionError
        ELSE Return(Min(shares, max_shares))

(***************************************************************************)
(* Inputs: strategy configurations, bar series, sizing arguments.          *)
(***************************************************************************)
MA101Configs ==
    { EmptyConfig,
      [regime_ma |-> 2, fast_ema |-> 1, slow_ema |-> 2, stop_ma |-> 3],
      [regime_ma |-> 2, fast_ema |-> 1, slow_ema |-> 2, stop_ma |-> 1],
      [regime_ma |-> 4, fast_ema |-> 1, slow_ema |-> 2, stop_ma |-> 3] }

DonchianConfigs ==
    { EmptyConfig,
      [entry_period |-> 2, exit_period |-> 1],
      [entry_period |-> 1, exit_period |-> 2],
      [entry_period |-> 2, exit_period |-> 1, allow_shorts |-> TRUE],
      [entry_period |-> 1, exit_period |-> 1, use_atr_stop |-> TRUE, atr_period |-> 1,
       allow_shorts |-> TRUE],
      [entry_period |-> 1, exit_period |-> 1, use_atr_stop |-> TRUE, atr_period |-> 3] }

SwingModes == {"crossover", "dip_50", "dip_200", "all"}

SwingConfigs ==
    { EmptyConfig }
    \cup { [fast_ema |-> 1, slow_ema |-> 2, ma_50 |-> 2, ma_200 |-> 3, entry_mode |-> m] :
             m \in SwingModes }

HTFConfigs ==
    { EmptyConfig,
      [min_dollar_volume |-> 1],
      [min_dollar_volume |-> 1, volume_multiplier |-> R(3), pole_lookback |-> 1] }

Strategies ==
    { MA101_init(c) : c \in MA101Configs }
    \cup { Donchian_init(c) : c \in DonchianConfigs }
    \cup { Swing_init(c) : c \in SwingConfigs }
    \cup { HTF_init(c) : c \in HTFConfigs }

DefaultStrategies ==
    { MA101_init(EmptyConfig), Donchian_init(EmptyConfig),
      Swing_init(EmptyConfig), HTF_init(EmptyConfig) }

\* the longest EMA span two of whose columns the strategy compares
MaxSpan(self) ==
    IF self.variant \in {"MA101", "Swing"} THEN self.slow_ema ELSE 1

\* the longest rolling window the strategy's entry conditions read
MaxWindow(self) ==
    CASE self.variant = "MA101"    -> self.regime_ma
      [] self.variant = "Donchian" -> self.entry_period
      [] self.variant = "Swing"    -> self.ma_200
      [] self.variant = "HTF"      -> self.ma_50

\* long EMA spans are run on the series with few free bars only, a long
\* window on the short and the long series, short windows on short series
SeriesFor(self) ==
    IF MaxSpan(self) > 3
    THEN SeriesOver(0, LongTails) \cup LongSeries \cup FlatSeries
    ELSE IF MaxWindow(self) > 3
    THEN ShortSeries \cup LongSeries \cup MalformedSeries \cup FlatSeries
         \cup (IF self.variant = "Donchian" THEN RisingSeries ELSE {})
         \cup (IF self.variant = "HTF" THEN ZeroRiskSeries ELSE {})
    ELSE ShortSeries \cup MalformedSeries

Prices == { Rat(k, 100) : k \in {0, 1, 100, 101, 250, 5000} }

Equities == { R(-1000), R(0), R(1000), R(100000) }

PositionSizings ==
    { EmptyConfig, [default_params |-> EmptyConfig],
      [default_params |-> [risk_pct |-> Rat(2, 100)]] }

RiskConfigs == { EmptyConfig, [max_position_risk_pct |-> Rat(10, 100)] }

(***************************************************************************)
(* Polymorphic operations of the strategy contract.                        *)
(***************************************************************************)
generate_signals(self, d) ==
    CASE self.variant = "MA101"    -> MA101_generate_signals(self, d)
      [] self.variant = "Donchian" -> Donchian_generate_signals(self, d)
      [] self.variant = "Swing"    -> Swing_generate_signals(self, d)
      [] self.variant = "HTF"      -> HTF_generate_signals(self, d)

check_current_signal(self, d) ==
    CASE self.variant = "MA101"    -> MA101_check_current_signal(self, d)
      [] self.variant = "Donchian" -> Donchian_check_current_signal(self, d)
      [] self.variant = "Swing"    -> Swing_check_current_signal(self, d)
      [] self.variant = "HTF"      -> HTF_check_current_signal(self, d)

(***************************************************************************)
(* Multi-symbol screen.  QullamaggieHTFStrategy defines screen_universe;   *)
(* StrategyBase and the other three classes define no such method, so the  *)
(* call on their objects raises AttributeError.                            *)
(***************************************************************************)
NoStrategy == [variant |-> "none"]

NoSeries == [cols |-> ColumnNames, index |-> <<>>, rows |-> <<>>]

AttributeError == [kind |-> "raise", error |-> "AttributeError"]

\* the loop of screen_universe from position i on, signals collected so far
RECURSIVE HTF_screen_from(_, _, _, _, _)
HTF_screen_from(self, symbol_list, data_dict, i, signals) ==
    IF i > Len(symbol_list) THEN Return(signals)
    ELSE IF symbol_list[i] \notin DOMAIN data_dict
    THEN HTF_screen_from(self, symbol_list, data_dict, i + 1, signals)
    ELSE LET signal == HTF_check_current_signal(
                           self, WithSymbol(data_dict[symbol_list[i]], symbol_list[i]))
         IN  IF signal.kind = "raise" THEN signal
             ELSE IF signal.kind = "record"
             THEN HTF_screen_from(self, symbol_list, data_dict, i + 1, Append(signals, signal))
             ELSE HTF_screen_from(self, symbol_list, data_dict, i + 1, signals)

HTF_screen_universe(self, symbol_list, data_dict) ==
    HTF_screen_from(self, symbol_list, data_dict, 1, <<>>)

screen_universe(self, symbol_list, data_dict) ==
    IF self.variant = "HTF"
    THEN HTF_screen_universe(self, symbol_list, data_dict)
    ELSE AttributeError

Symbols == {"AAA", "BBB", "CCC"}

SymbolLists == SeqsUpTo(Symbols, MaxSymbols)

\* long series: all constant, one breakout bar, a breakout bar and a bar after it
ScreenSeries ==
    SeriesOver(LongPrefix, { <<>>, << MkBar(6, 6, 1, 3) >>,
                             << MkBar(6, 6, 1, 3), MkBar(6, 6, 1, 3) >> })

DataDicts ==
    UNION { [K -> ScreenSeries] : K \in SUBSET {"AAA", "BBB"} }

ScreenStrategies == DefaultStrategies \cup { HTF_init([min_dollar_volume |-> 1]) }

InitScreen ==
    /\ call = NotCalled
    /\ strategy \in ScreenStrategies
    /\ df = NoSeries
    /\ frame = NotCalled
    /\ record = NotCalled
    /\ sizing = NotCalled
    /\ scan = NotCalled
    /\ screen \in { [symbol_list |-> sl, data_dict |-> dd, result |-> NotCalled] :
                      sl \in SymbolLists, dd \in DataDicts }

ScreenUniverse ==
    /\ screen.result = NotCalled
    /\ screen' = [screen EXCEPT !.result =
                    screen_universe(strategy, screen.symbol_list, screen.data_dict)]
    /\ UNCHANGED <<strategy, df, frame, record, sizing, scan, call>>

NextScreen == ScreenUniverse

SpecScreen == InitScreen /\ [][NextScreen]_vars

(***************************************************************************)
(* Watchlist scan (dashboard/pages/1_Daily_Watchlist.py): for each symbol  *)
(* of the universe the series is loaded and every selected strategy is     *)
(* asked for its current signal.  load_data is an external collaborator:   *)
(* scan.data holds, per symbol, the series it returns or that it raises.   *)
(***************************************************************************)
MinScanBars == 200

STRATEGY_CLASSES ==
    [ma101_burns         |-> "MA101",
     donchian_breakout   |-> "Donchian",
     swing_trading_burns |-> "Swing",
     qullamaggie_htf     |-> "HTF"]

\* StrategyClass(): the class constructed without a config
StrategyClass(strategy_id) ==
    CASE STRATEGY_CLASSES[strategy_id] = "MA101"    -> MA101_init(EmptyConfig)
      [] STRATEGY_CLASSES[strategy_id] = "Donchian" -> Donchian_init(EmptyConfig)
      [] STRATEGY_CLASSES[strategy_id] = "Swing"    -> Swing_init(EmptyConfig)
      [] STRATEGY_CLASSES[strategy_id] = "HTF"      -> HTF_init(EmptyConfig)

\* min_risk < signal['risk_per_share'] < max_risk
risk_in_range_exclusive(signal, min_risk, max_risk) ==
    RLt(min_risk, signal.risk_per_share) /\ RLt(signal.risk_per_share, max_risk)

\* min_risk <= signal['risk_per_share'] <= max_risk
risk_in_range(signal, min_risk, max_risk) ==
    RLe(min_risk, signal.risk_per_share) /\ RLe(signal.risk_per_share, max_risk)

Loaded(d) == [kind |-> "ok", df |-> d]

LoadError == [kind |-> "raise", error |-> "Exception"]

\* what load_data may give for a symbol: an error, no bars, one bar too few,
\* a constant series, a breakout on the last bar, the same without volume
BreakoutSeries == SeriesOver(MinScanBars - 1, { << MkBar(6, 6, 1, 3) >> })

ScanData ==
    { LoadError, Loaded(NoSeries) }
    \cup { Loaded(d) : d \in SeriesOver(MinScanBars - 2, { << MkBar(6, 6, 1, 3) >> }) }
    \cup { Loaded(d) : d \in SeriesOver(MinScanBars, { <<>> }) }
    \cup { Loaded(d) : d \in BreakoutSeries }
    \cup { Loaded([d EXCEPT !.cols = @ \ {"volume"}]) : d \in BreakoutSeries }

\* the data of a later symbol: the breakout series, with and without volume
LaterScanData ==
    { ld \in ScanData : ld.kind = "ok" /\ Len(ld.df.rows) >= MinScanBars
                                       /\ ld.df.rows[Len(ld.df.rows)] # BaseBar }

\* a universe with its data
Universes ==
    { [symbols |-> <<>>, data |-> [sym \in {} |-> LoadError]] }
    \cup { [symbols |-> <<"AAA", "BBB">>, data |-> [AAA |-> a, BBB |-> b]] :
             a \in ScanData, b \in LaterScanData }

Selections ==
    { <<"ma101_burns", "donchian_breakout", "swing_trading_burns", "qullamaggie_htf">>,
      <<"qullamaggie_htf", "donchian_breakout">> }

RiskRanges == { <<R(0), R(100)>>, <<R(4), R(100)>>, <<R(0), Rat(36, 11)>> }

InitScan ==
    /\ call = NotCalled
    /\ strategy = NoStrategy
    /\ df = NoSeries
    /\ frame = NotCalled
    /\ record = NotCalled
    /\ sizing = NotCalled
    /\ screen = NotCalled
    /\ scan \in { [symbols |-> u.symbols, data |-> u.data, selected_strategies |-> sel,
                   min_risk |-> rr[1], max_risk |-> rr[2],
                   pc |-> "start", idx |-> 0, sidx |-> 0, df |-> NoSeries,
                   all_signals |-> <<>>, last_scan |-> NotCalled] :
                    u \in Universes, sel \in Selections, rr \in RiskRanges }

\* lines 78-85: the symbols are fetched; an empty universe stops the page
ScanBegin ==
    /\ scan # NotCalled
    /\ scan.pc = "start"
    /\ scan' = IF scan.symbols = <<>>
               THEN [scan EXCEPT !.pc = "stopped"]
               ELSE [scan EXCEPT !.pc = "symbol", !.idx = 1, !.all_signals = <<>>]
    /\ UNCHANGED <<strategy, df, frame, record, sizing, screen, call>>

\* lines 91-102, 127-129 without the test of lines 99-100: every series
\* that was loaded goes to the strategy loop
ScanLoadSymbolUnfiltered ==
    /\ scan # NotCalled
    /\ scan.pc = "symbol"
    /\ scan.idx <= Len(scan.symbols)
    /\ LET symbol == scan.symbols[scan.idx]
           loaded == scan.data[symbol]
       IN  scan' =
             IF loaded.kind = "raise"
             THEN [scan EXCEPT !.idx = @ + 1]
             ELSE [scan EXCEPT !.df = WithSymbol(loaded.df, symbol), !.sidx = 1,
                               !.pc = "strategy"]
    /\ UNCHANGED <<strategy, df, frame, record, sizing, screen, call>>

\* lines 91-102, 127-129: the next symbol is loaded
ScanLoadSymbol ==
    /\ scan # NotCalled
    /\ scan.pc = "symbol"
    /\ scan.idx <= Len(scan.symbols)
    /\ LET symbol == scan.symbols[scan.idx]
           loaded == scan.data[symbol]
       IN  scan' =
             IF loaded.kind = "raise"
             THEN [scan EXCEPT !.idx = @ + 1]
             ELSE IF Len(loaded.df.rows) = 0 \/ Len(loaded.df.rows) < MinScanBars
             THEN [scan EXCEPT !.idx = @ + 1]
             ELSE [scan EXCEPT !.df = WithSymbol(loaded.df, symbol), !.sidx = 1,
                               !.pc = "strategy"]
    /\ UNCHANGED <<strategy, df, frame, record, sizing, screen, call>>

\* lines 117-125 with the handler of lines 123-125 left out: the error
\* reaches the handler of lines 127-129, which goes on to the next symbol
ScanAfterSignalUnhandled(sc, strategy_id, signal) ==
    IF signal.kind = "raise"
    THEN [sc EXCEPT !.idx = @ + 1, !.pc = "symbol"]
    ELSE IF signal.kind = "record" /\ risk_in_range(signal, sc.min_risk, sc.max_risk)
    THEN [sc EXCEPT !.sidx = @ + 1,
                    !.all_signals = Append(@, signal @@ [strategy_id |-> strategy_id])]
    ELSE [sc EXCEPT !.sidx = @ + 1]

\* lines 117-125: what the strategy loop does with the outcome of
\* check_current_signal: an error is swallowed, a record within the risk
\* range is tagged and appended, anything else is passed over
ScanAfterSignal(sc, strategy_id, signal) ==
    IF signal.kind = "raise"
    THEN [sc EXCEPT !.sidx = @ + 1]
    ELSE IF signal.kind = "record" /\ risk_in_range(signal, sc.min_risk, sc.max_risk)
    THEN [sc EXCEPT !.sidx = @ + 1,
                    !.all_signals = Append(@, signal @@ [strategy_id |-> strategy_id])]
    ELSE [sc EXCEPT !.sidx = @ + 1]

\* lines 105-125: the next selected strategy is evaluated on the series
ScanEvaluate ==
    /\ scan # NotCalled
    /\ scan.pc = "strategy"
    /\ scan.sidx <= Len(scan.selected_strategies)
    /\ LET strategy_id == scan.selected_strategies[scan.sidx]
       IN  scan' =
             IF strategy_id \notin DOMAIN STRATEGY_CLASSES
             THEN [scan EXCEPT !.sidx = @ + 1]
             ELSE ScanAfterSignal(
                      scan, strategy_id,
                      check_current_signal(StrategyClass(strategy_id), scan.df))
    /\ UNCHANGED <<strategy, df, frame, record, sizing, screen, call>>

\* line 105: the selected strategies are exhausted, the symbol loop goes on
ScanNextSymbol ==
    /\ scan # NotCalled
    /\ scan.pc = "strategy"
    /\ scan.sidx > Len(scan.selected_strategies)
    /\ scan' = [scan EXCEPT !.idx = @ + 1, !.pc = "symbol"]
    /\ UNCHANGED <<strategy, df, frame, record, sizing, screen, call>>

\* lines 131-136: the symbols are exhausted, the result is stored
ScanStore ==
    /\ scan # NotCalled
    /\ scan.pc = "symbol"
    /\ scan.idx > Len(scan.symbols)
    /\ scan' = [scan EXCEPT !.last_scan = scan.all_signals, !.pc = "done"]
    /\ UNCHANGED <<strategy, df, frame, record, sizing, screen, call>>

NextScan ==
    \/ ScanBegin
    \/ ScanLoadSymbol
    \/ ScanEvaluate
    \/ ScanNextSymbol
    \/ ScanStore

SpecScan == InitScan /\ [][NextScan]_vars

(***************************************************************************)
(* Signal evaluation: a strategy is constructed and handed one bar series; *)
(* the caller may run generate_signals and check_current_signal on it.     *)
(***************************************************************************)
Init ==
    /\ call = NotCalled
    /\ strategy \in Strategies
    /\ df \in SeriesFor(strategy)
    /\ frame = NotCalled
    /\ record = NotCalled
    /\ sizing = NotCalled
    /\ screen = NotCalled
    /\ scan = NotCalled

GenerateSignals ==
    /\ strategy.variant # "none"
    /\ frame = NotCalled
    /\ frame' = generate_signals(strategy, df)
    /\ UNCHANGED <<strategy, df, record, sizing, screen, scan, call>>

CheckCurrentSignal ==
    /\ strategy.variant # "none"
    /\ record = NotCalled
    /\ record' = check_current_signal(strategy, df)
    /\ UNCHANGED <<strategy, df, frame, sizing, screen, scan, call>>

Next == GenerateSignals \/ CheckCurrentSignal

Spec == Init /\ [][Next]_vars

(***************************************************************************)
(* Position sizing: the arguments are fixed, then the method runs.         *)
(***************************************************************************)
InitSizing ==
    /\ call = NotCalled
    /\ strategy = NoStrategy
    /\ df = NoSeries
    /\ frame = NotCalled
    /\ record = NotCalled
    /\ screen = NotCalled
    /\ scan = NotCalled
    /\ sizing \in { [position_sizing |-> ps, RISK_CONFIG |-> rc, entry_price |-> e,
                     stop_price |-> s, account_equity |-> q, result |-> NotCalled] :
                      ps \in PositionSizings, rc \in RiskConfigs,
                      e \in Prices, s \in Prices, q \in Equities }

CalculatePositionSize ==
    /\ sizing.result = NotCalled
    /\ sizing' = [sizing EXCEPT !.result =
                    calculate_position_size(sizing.position_sizing, sizing.RISK_CONFIG,
                                            sizing.entry_price, sizing.stop_price,
                                            sizing.account_equity)]
    /\ UNCHANGED <<strategy, df, frame, record, screen, scan, call>>

NextSizing == CalculatePositionSize

SpecSizing == InitSizing /\ [][NextSizing]_vars

(***************************************************************************)
(* Frame effects: which frame object an operation writes its columns to.   *)
(* A frame object has an identity (id) and contents (val); the caller's    *)
(* objects are kept in a heap, a function from id to contents.             *)
(***************************************************************************)
FrameObject(id, d) == [id |-> id, val |-> d]

\* no copy is taken: the local name stays bound to the object passed in
df_same_object(o) == o

\* df.copy(): a new object with the same columns, index and values
df_copy(o) == [id |-> "copy", val |-> o.val]

\* df[name] = ... for every name of names
AssignColumns(o, names) == [o EXCEPT !.val.cols = @ \cup names]

\* df['symbol'] = symbol
AssignSymbol(o, symbol) == [o EXCEPT !.val = WithSymbol(@, symbol)]

\* the heap after the writes that left the frame object w
Store(heap, w) == IF w.id \in DOMAIN heap THEN [heap EXCEPT ![w.id] = w.val] ELSE heap

FirstColumns(columns, k) == { columns[i] : i \in 1..k }

MA101_indicator_columns(self) ==
    << "sma_" \o ToString(self.regime_ma), "ema_" \o ToString(self.fast_ema),
       "ema_" \o ToString(self.slow_ema), "ema_" \o ToString(self.stop_ma),
       "rsi_" \o ToString(self.rsi_period), "atr_14" >>

Donchian_indicator_columns(self) ==
    << "donchian_high_" \o ToString(self.entry_period),
       "donchian_low_" \o ToString(self.entry_period),
       "donchian_high_" \o ToString(self.exit_period),
       "donchian_low_" \o ToString(self.exit_period),
       "atr_" \o ToString(self.atr_period) >>

Swing_indicator_columns(self) ==
    << "ema_" \o ToString(self.fast_ema), "ema_" \o ToString(self.slow_ema),
       "sma_" \o ToString(self.ma_50), "sma_" \o ToString(self.ma_200),
       "rsi_" \o ToString(self.rsi_period), "atr_" \o ToString(self.atr_period) >>

HTF_indicator_columns(self) ==
    << "ema_10", "sma_20", "sma_50", "avg_volume", "volume_ratio", "dollar_volume",
       "avg_dollar_volume", "high_20", "low_20", "pole_move" >>

indicator_columns(self) ==
    CASE self.variant = "MA101"    -> MA101_indicator_columns(self)
      [] self.variant = "Donchian" -> Donchian_indicator_columns(self)
      [] self.variant = "Swing"    -> Swing_indicator_columns(self)
      [] self.variant = "HTF"      -> HTF_indicator_columns(self)

reads(self) ==
    CASE self.variant = "MA101"    -> MA101_reads
      [] self.variant = "Donchian" -> Donchian_reads
      [] self.variant = "Swing"    -> Swing_reads
      [] self.variant = "HTF"      -> HTF_reads

signal_columns(self) ==
    IF self.variant = "Swing"
    THEN {"signal", "entry_price", "stop_price", "reason", "entry_type"}
    ELSE {"signal", "entry_price", "stop_price", "reason"}

\* calculate_indicators on the frame object o: the copy is taken first, the
\* indicator columns are assigned to it one by one until a read fails
calculate_indicators_on(self, o) ==
    LET w       == df_copy(o)
        missing == FirstMissing(w.val, reads(self), 1)
        columns == indicator_columns(self)
    IN  IF missing # <<>>
        THEN [kind  |-> "raise",
              frame |-> AssignColumns(w, FirstColumns(columns, missing[1].indicators))]
        ELSE [kind  |-> "ok",
              frame |-> AssignColumns(w, FirstColumns(columns, Len(columns)))]

\* generate_signals: the signal columns go to what calculate_indicators returned
generate_signals_on(self, o) ==
    LET r == calculate_indicators_on(self, o)
    IN  IF r.kind = "raise" THEN r
        ELSE [kind |-> "ok", frame |-> AssignColumns(r.frame, signal_columns(self))]

\* check_current_signal only reads what generate_signals returned
check_current_signal_on(self, o) == generate_signals_on(self, o)

\* the loop of screen_universe from position i on, as writes to the heap
RECURSIVE HTF_screen_on(_, _, _, _)
HTF_screen_on(self, symbol_list, heap, i) ==
    IF i > Len(symbol_list) THEN heap
    ELSE IF symbol_list[i] \notin DOMAIN heap
    THEN HTF_screen_on(self, symbol_list, heap, i + 1)
    ELSE LET symbol == symbol_list[i]
             w      == AssignSymbol(df_copy(FrameObject(symbol, heap[symbol])), symbol)
             r      == check_current_signal_on(self, w)
             after  == Store(Store(heap, w), r.frame)
         IN  IF r.kind = "raise" THEN after
             ELSE HTF_screen_on(self, symbol_list, after, i + 1)

screen_universe_on(self, symbol_list, heap) ==
    IF self.variant = "HTF" THEN HTF_screen_on(self, symbol_list, heap, 1) ELSE heap

Operations == {"calculate_indicators", "generate_signals", "check_current_signal"}

operation_on(op, self, o) ==
    CASE op = "calculate_indicators" -> calculate_indicators_on(self, o)
      [] op = "generate_signals"     -> generate_signals_on(self, o)
      [] op = "check_current_signal" -> check_current_signal_on(self, o)

\* series handed to one operation: empty, well-formed, and lacking a column
CallSeries ==
    { NoSeries }
    \cup SeriesOver(0, { << BaseBar >>, << BaseBar, MkBar(6, 6, 1, 3) >> })
    \cup { WithSymbol(d, "AAA") : d \in SeriesOver(0, { << BaseBar >> }) }
    \cup { d \in MalformedSeries : d.rows[1] = BaseBar /\ d.rows[Len(d.rows)] = BaseBar }

CallDataDicts ==
    UNION { [K -> SeriesOver(0, { << BaseBar >> })
                  \cup { d \in MalformedSeries : d.cols = ColumnNames \ {"volume"}
                                                 /\ \A t \in 1..Len(d.rows) : d.rows[t] = BaseBar }] :
              K \in SUBSET {"AAA", "BBB"} }

InitCall ==
    /\ call = NotCalled
    /\ strategy \in ScreenStrategies
    /\ df \in CallSeries
    /\ frame = NotCalled
    /\ record = NotCalled
    /\ sizing = NotCalled
    /\ scan = NotCalled
    /\ screen \in { [symbol_list |-> sl, data_dict |-> dd, result |-> NotCalled] :
                      sl \in SymbolLists, dd \in CallDataDicts }

\* one of the single-series operations runs on the caller's series
CallOperation(op) ==
    /\ call = NotCalled
    /\ LET caller == FrameObject("caller", df)
           r      == operation_on(op, strategy, caller)
       IN  /\ df' = Store([caller |-> df], r.frame).caller
           /\ call' = [kind |-> "called", op |-> op, before |-> df,
                       outcome |-> r.kind, returned |-> r.frame]
    /\ UNCHANGED <<strategy, frame, record, sizing, screen, scan>>

CallCalculateIndicators == CallOperation("calculate_indicators")

CallGenerateSignals == CallOperation("generate_signals")

CallCheckCurrentSignal == CallOperation("check_current_signal")

\* screen_universe runs on the caller's mapping of series
CallScreenUniverse ==
    /\ call = NotCalled
    /\ screen' = [screen EXCEPT !.data_dict =
                     screen_universe_on(strategy, screen.symbol_list, screen.data_dict)]
    /\ call' = [kind |-> "called", op |-> "screen_universe", before |-> screen.data_dict]
    /\ UNCHANGED <<strategy, df, frame, record, sizing, scan>>

NextCall ==
    \/ CallCalculateIndicators
    \/ CallGenerateSignals
    \/ CallCheckCurrentSignal
    \/ CallScreenUniverse

SpecCall == InitCall /\ [][NextCall]_vars

(***************************************************************************)
(* Indicator library: _calculate_rsi and the EMA column are applied to the *)
(* close column of a series, for a period of the caller's choice.          *)
(***************************************************************************)
MaxPeriod == 3

Periods == 1..MaxPeriod

InitIndicator ==
    /\ call = NotCalled
    /\ strategy = NoStrategy
    /\ df \in ShortSeries
    /\ frame = NotCalled
    /\ record = NotCalled
    /\ sizing = NotCalled
    /\ screen = NotCalled
    /\ scan = NotCalled

\* self._calculate_rsi(df['close'], period)
CalculateRsi ==
    /\ call = NotCalled
    /\ \E period \in Periods :
          call' = [kind |-> "called", op |-> "_calculate_rsi", period |-> period,
                   result |-> calculate_rsi(Col(df, "close"), period)]
    /\ UNCHANGED <<strategy, df, frame, record, sizing, screen, scan>>

\* df['close'].ewm(span=period, adjust=False).mean()
CalculateEma ==
    /\ call = NotCalled
    /\ \E period \in Periods :
          call' = [kind |-> "called", op |-> "ema", period |-> period,
                   result |-> ewm_mean(Col(df, "close"), period)]
    /\ UNCHANGED <<strategy, df, frame, record, sizing, screen, scan>>

NextIndicator == CalculateRsi \/ CalculateEma

SpecIndicator == InitIndicator /\ [][NextIndicator]_vars

(***************************************************************************)
(* Properties.                                                             *)
(***************************************************************************)
RowWellDefined(row) ==
    /\ row.signal = 0 => IsNaN(row.entry_price) /\ IsNaN(row.stop_price)
    /\ row.signal # 0 => IsDefined(row.entry_price) /\ IsDefined(row.stop_price)

\* C1: in every frame returned by generate_signals, of every variant and
\* configuration, a flat row has undefined entry and stop prices and a
\* non-flat row has entry and stop prices that are both defined numbers.
C1_SignalRowsWellDefined ==
    WellFormed(df) /\ frame.kind = "ok" => \A t \in 1..Len(frame.rows) : RowWellDefined(frame.rows[t])

\* the configurations C1 singles out: a Donchian stop column that becomes
\* defined later than the entry channel
DonchianLateStop(self) ==
    /\ self.variant = "Donchian"
    /\ \/ ~self.use_atr_stop /\ self.exit_period > self.entry_period
       \/ self.use_atr_stop /\ self.atr_period > self.entry_period + 1

\* C1, outside those configurations
C1_SignalRowsWellDefinedElsewhere ==
    ~DonchianLateStop(strategy) => C1_SignalRowsWellDefined

\* the minimum lookback window C2 names for each variant
NamedWindow(self) == MaxWindow(self)

\* C2 as stated: for every variant in its default configuration, on a
\* well-formed series shorter than the variant's named window (MA101 200,
\* Donchian 50, Swing 200, HTF 50) check_current_signal returns None and
\* raises nothing.
C2_ShortSeriesGivesNone ==
    /\ strategy \in DefaultStrategies
    /\ WellFormed(df)
    /\ record # NotCalled
    /\ Len(df.rows) < NamedWindow(strategy)
    => record = None

\* the window the entry condition of the variant actually reads: the Swing
\* crossover pattern reads two consecutive EMA values and no rolling mean
RequiredWindow(self) ==
    CASE self.variant = "MA101"    -> self.regime_ma
      [] self.variant = "Donchian" -> self.entry_period
      [] self.variant = "HTF"      -> self.ma_50
      [] self.variant = "Swing"    ->
            IF self.entry_mode = "dip_200" THEN self.ma_200
            ELSE IF self.entry_mode = "dip_50" THEN self.ma_50
            ELSE 2

\* C2 amended: on a well-formed series shorter than the window the variant's
\* entry condition reads (Swing: ma_200 in dip_200 mode, ma_50 in dip_50
\* mode, 2 bars in crossover and all mode) check_current_signal returns None
\* and raises nothing.
C2_ShortOfRequiredWindowGivesNone ==
    WellFormed(df) /\ record # NotCalled /\ Len(df.rows) < RequiredWindow(strategy)
        => record = None

\* a series too short for the regime SMA whose last bar is an EMA cross-above
C2_Witness ==
    /\ strategy.variant = "MA101"
    /\ WellFormed(df)
    /\ Len(df.rows) >= 2
    /\ Len(df.rows) < strategy.regime_ma
    /\ LET ind == MA101_calculate_indicators(strategy, df)
           t   == Len(df.rows)
       IN  /\ RLe(ind.ema_fast[t - 1], ind.ema_slow[t - 1])
           /\ RGt(ind.ema_fast[t], ind.ema_slow[t])
    /\ record = None

\* C3: every record returned by check_current_signal has risk_per_share
\* equal to |entry_price - stop_price|, hence never negative.
C3_RiskIsAbsoluteDifference ==
    WellFormed(df) /\ record.kind = "record"
        => /\ record.risk_per_share = RAbs(RSub(record.entry_price, record.stop_price))
           /\ record.risk_per_share.num >= 0

\* C4: on a non-empty series check_current_signal returns None exactly when
\* the last row of generate_signals is flat, and otherwise a record carrying
\* that row's entry price, stop price and reason, LONG for 1, SHORT for -1.
C4_RecordIsFinalRow ==
    frame.kind = "ok" /\ record # NotCalled /\ Len(df.rows) > 0
        => LET last == frame.rows[Len(frame.rows)]
           IN  /\ record = None <=> last.signal = 0
               /\ last.signal # 0
                    => /\ record.kind = "record"
                       /\ record.entry_price = last.entry_price
                       /\ record.stop_price = last.stop_price
                       /\ record.reason = last.reason
                       /\ last.signal = 1 => record.signal = "LONG"
                       /\ last.signal = -1 => record.signal = "SHORT"

\* a SHORT record from a frame whose first row is flat and that also holds a long row
C4_Witness ==
    /\ frame.kind = "ok"
    /\ record.kind = "record"
    /\ record.signal = "SHORT"
    /\ Len(frame.rows) >= 3
    /\ frame.rows[1].signal = 0
    /\ \E t \in 1..Len(frame.rows) : frame.rows[t].signal = 1

\* C5: calculate_position_size returns 0, and raises nothing, whenever
\* entry_price equals stop_price, whatever the equity and the entry price.
C5_ZeroRiskGivesZeroShares ==
    sizing.result # NotCalled /\ sizing.entry_price = sizing.stop_price
        => sizing.result = Return(0)

\* zero risk at entry price 0, where equity * max_position_pct / entry_price is undefined
C5_Witness ==
    /\ sizing.result = Return(0)
    /\ sizing.entry_price = R(0)
    /\ sizing.stop_price = R(0)
    /\ sizing.account_equity # R(0)

ClaimedRiskPct(ps) ==
    IF "default_params" \in DOMAIN ps /\ "risk_pct" \in DOMAIN ps.default_params
    THEN ps.default_params.risk_pct
    ELSE Rat(1, 100)

ClaimedMaxPositionPct(rc) ==
    IF "max_position_risk_pct" \in DOMAIN rc THEN rc.max_position_risk_pct ELSE Rat(2, 100)

PositionCap == RMul(sizing.account_equity, ClaimedMaxPositionPct(sizing.RISK_CONFIG))

RiskBudget == RMul(sizing.account_equity, ClaimedRiskPct(sizing.position_sizing))

PerShareRisk == RAbs(RSub(sizing.entry_price, sizing.stop_price))

\* C6: for positive entry and stop prices and non-negative equity the share
\* count n is an integer with 0 <= n and n * entry_price <= equity *
\* max_position_pct, however small |entry_price - stop_price| is.
C6_SharesWithinCap ==
    /\ sizing.result # NotCalled
    /\ sizing.entry_price.num > 0
    /\ sizing.stop_price.num > 0
    /\ sizing.account_equity.num >= 0
    => /\ sizing.result.kind = "return"
       /\ sizing.result.value \in Nat
       /\ RLe(RMul(R(sizing.result.value), sizing.entry_price), PositionCap)

\* a one-cent risk whose uncapped share count would cost more than the cap
C6_Witness ==
    /\ sizing.result.kind = "return"
    /\ sizing.entry_price.num > 0
    /\ sizing.stop_price.num > 0
    /\ sizing.account_equity.num > 0
    /\ PerShareRisk = Rat(1, 100)
    /\ sizing.result.value > 0
    /\ RGt(RMul(RDiv(RiskBudget, PerShareRisk), sizing.entry_price), PositionCap)

\* C7: for entry_price # stop_price and positive inputs the share count is
\* min(floor(equity * risk_pct / |entry - stop|), floor(equity *
\* max_position_pct / entry)), risk_pct defaulting to 0.01 and
\* max_position_pct to 0.02: n is at most both quotients, and n + 1 exceeds
\* one of them.
C7_SharesAreMinOfFloors ==
    /\ sizing.result # NotCalled
    /\ sizing.entry_price # sizing.stop_price
    /\ sizing.entry_price.num > 0
    /\ sizing.stop_price.num > 0
    /\ sizing.account_equity.num > 0
    => /\ sizing.result.kind = "return"
       /\ LET n == sizing.result.value
          IN  /\ RLe(RMul(R(n), PerShareRisk), RiskBudget)
              /\ RLe(RMul(R(n), sizing.entry_price), PositionCap)
              /\ \/ RGt(RMul(R(n + 1), PerShareRisk), RiskBudget)
                 \/ RGt(RMul(R(n + 1), sizing.entry_price), PositionCap)

\* a share count set by the risk budget, with a quotient that is not whole
C7_Witness ==
    /\ sizing.result.kind = "return"
    /\ sizing.entry_price.num > 0
    /\ sizing.stop_price.num > 0
    /\ sizing.account_equity.num > 0
    /\ sizing.entry_price # sizing.stop_price
    /\ sizing.result.value > 0
    /\ RLt(RMul(R(sizing.result.value), PerShareRisk), RiskBudget)
    /\ RLe(RMul(R(sizing.result.value + 1), sizing.entry_price), PositionCap)

\* C8: a malformed series (dates not strictly increasing, or one of the
\* columns open/high/low/close/volume missing) is rejected by
\* generate_signals and by check_current_signal with a failure raised
\* before any indicator is computed.
Rejected(result) == result.kind = "raise" /\ result.indicators = 0

C8_MalformedSeriesRejected ==
    ~WellFormed(df)
        => /\ frame # NotCalled => Rejected(frame)
           /\ record # NotCalled => Rejected(record)

\* C9: in Swing mode 'all' the first pattern in the order crossover,
\* dip_50, dip_200 that holds on a bar marks it: a cross-above bar is
\* 'crossover' with the slow EMA as stop even if a dip condition holds too,
\* and a bar with the 50-SMA dip and no cross is 'dip_50' with stop
\* 0.98 * SMA50 even if the 200-SMA dip holds too.
C9_FirstMatchWins ==
    strategy.variant = "Swing" /\ strategy.entry_mode = "all" /\ frame.kind = "ok"
        => LET ind == Swing_calculate_indicators(strategy, df)
           IN  \A t \in 1..Len(frame.rows) :
                 LET row == frame.rows[t]
                 IN  /\ Swing_cross_above(ind, t)
                        => row.entry_type = "crossover" /\ row.stop_price = ind.ema_slow[t]
                     /\ ~Swing_cross_above(ind, t) /\ Swing_dip_50(df, ind, t)
                        => /\ row.entry_type = "dip_50"
                           /\ row.stop_price = RMul(Rat(98, 100), ind.sma_50[t])
                     /\ /\ ~Swing_cross_above(ind, t)
                        /\ ~Swing_dip_50(df, ind, t)
                        /\ Swing_dip_200(df, ind, t)
                        => /\ row.entry_type = "dip_200"
                           /\ row.stop_price = RMul(Rat(97, 100), ind.sma_200[t])

\* a frame of mode 'all' with a bar on which the cross-above and the 50-SMA dip both hold
C9_Witness ==
    /\ strategy.variant = "Swing"
    /\ strategy.entry_mode = "all"
    /\ frame.kind = "ok"
    /\ LET ind == Swing_calculate_indicators(strategy, df)
       IN  \E t \in 1..Len(frame.rows) :
             /\ Swing_cross_above(ind, t)
             /\ Swing_dip_50(df, ind, t)
             /\ frame.rows[t].entry_type = "crossover"

\* a frame of mode 'all' with a bar on which both dips hold and no cross-above
C9_WitnessBothDips ==
    /\ strategy.variant = "Swing"
    /\ strategy.entry_mode = "all"
    /\ frame.kind = "ok"
    /\ LET ind == Swing_calculate_indicators(strategy, df)
       IN  \E t \in 1..Len(frame.rows) :
             /\ ~Swing_cross_above(ind, t)
             /\ Swing_dip_50(df, ind, t)
             /\ Swing_dip_200(df, ind, t)
             /\ frame.rows[t].entry_type = "dip_50"

PatternHolds(mode, d, ind, t) ==
    CASE mode = "crossover" -> Swing_cross_above(ind, t)
      [] mode = "dip_50"    -> Swing_dip_50(d, ind, t)
      [] mode = "dip_200"   -> Swing_dip_200(d, ind, t)
      [] mode = "all"       -> \/ Swing_cross_above(ind, t)
                               \/ Swing_dip_50(d, ind, t)
                               \/ Swing_dip_200(d, ind, t)

\* C10: in Swing mode 'crossover', 'dip_50' or 'dip_200' a bar is non-flat
\* exactly when the selected pattern holds on it and then carries that
\* mode as entry_type; in mode 'all' a bar is non-flat exactly when at
\* least one of the three patterns holds on it.
C10_ModeSelectsPattern ==
    strategy.variant = "Swing" /\ strategy.entry_mode \in SwingModes /\ frame.kind = "ok"
        => LET ind == Swing_calculate_indicators(strategy, df)
           IN  \A t \in 1..Len(frame.rows) :
                 /\ frame.rows[t].signal # 0
                      <=> PatternHolds(strategy.entry_mode, df, ind, t)
                 /\ frame.rows[t].signal # 0 /\ strategy.entry_mode # "all"
                      => frame.rows[t].entry_type = strategy.entry_mode

\* a frame of mode 'dip_50' with a flat bar on which only the 200-SMA dip holds
C10_Witness ==
    /\ strategy.variant = "Swing"
    /\ strategy.entry_mode = "dip_50"
    /\ frame.kind = "ok"
    /\ LET ind == Swing_calculate_indicators(strategy, df)
       IN  \E t \in 1..Len(frame.rows) :
             /\ Swing_dip_200(df, ind, t)
             /\ ~Swing_dip_50(df, ind, t)
             /\ frame.rows[t].signal = 0

\* the bars t-n .. t-1 all exist and close[t] is above each of their highs
ExceedsPrecedingHighs(d, t, n) ==
    t > n /\ \A j \in (t - n)..(t - 1) : d.rows[t].close > d.rows[j].high

\* the bars t-n .. t-1 all exist and close[t] is below each of their lows
BelowPrecedingLows(d, t, n) ==
    t > n /\ \A j \in (t - n)..(t - 1) : d.rows[t].close < d.rows[j].low

\* v is the largest (smallest) value of column c over the bars t-n .. t-1
IsMaxOfPreceding(d, c, t, n, v) ==
    /\ \A j \in (t - n)..(t - 1) : RLe(R(d.rows[j][c]), v)
    /\ \E j \in (t - n)..(t - 1) : v = R(d.rows[j][c])

IsMinOfPreceding(d, c, t, n, v) ==
    /\ \A j \in (t - n)..(t - 1) : RGe(R(d.rows[j][c]), v)
    /\ \E j \in (t - n)..(t - 1) : v = R(d.rows[j][c])

\* the series with other values for the high and the low of bar t
WithHighLow(d, t, h, l) == [d EXCEPT !.rows[t].high = h, !.rows[t].low = l]

OwnHighLow(d, t) ==
    { <<d.rows[t].close, d.rows[t].close>>, <<d.rows[t].close + 3, 0>> }

\* the last MaxLen bars of the series
LastBars(d) == { t \in 1..Len(d.rows) : t > Len(d.rows) - MaxLen }

\* C11: the Donchian entry channel at bar t is the max of high (min of low)
\* over the bars t-N .. t-1; a bar whose close is above every high of the N
\* preceding bars is long, whatever its own high, and only such a bar is;
\* the signal of each of the last MaxLen bars is the same for any other
\* high and low of that bar.
C11_ChannelExcludesCurrentBar ==
    strategy.variant = "Donchian" /\ frame.kind = "ok"
        => LET N   == strategy.entry_period
               ind == Donchian_calculate_indicators(strategy, df)
           IN  \A t \in 1..Len(frame.rows) :
                 /\ t > N => /\ IsMaxOfPreceding(df, "high", t, N, ind.entry_high[t])
                             /\ IsMinOfPreceding(df, "low", t, N, ind.entry_low[t])
                 /\ t <= N => IsNaN(ind.entry_high[t]) /\ IsNaN(ind.entry_low[t])
                 /\ frame.rows[t].signal = 1 <=> ExceedsPrecedingHighs(df, t, N)
                 /\ t \in LastBars(df)
                      => \A hl \in OwnHighLow(df, t) :
                           generate_signals(strategy, WithHighLow(df, t, hl[1], hl[2])).rows[t].signal
                               = frame.rows[t].signal

\* a long row of a bar whose own high is above its close, hence above the channel
C11_Witness ==
    /\ strategy.variant = "Donchian"
    /\ frame.kind = "ok"
    /\ \E t \in 1..Len(frame.rows) :
          /\ frame.rows[t].signal = 1
          /\ df.rows[t].high > df.rows[t].close
          /\ ExceedsPrecedingHighs(df, t, strategy.entry_period)
          /\ \E j \in 1..(t - 1) : df.rows[j].high < df.rows[t].close

\* a series of ScenarioLen bars with strictly rising closes, high = close + 1
\* and low = close - 1 on every bar
IsRisingScenario(d) ==
    /\ WellFormed(d)
    /\ Len(d.rows) = ScenarioLen
    /\ \A t \in 1..Len(d.rows) :
          /\ d.rows[t].high = d.rows[t].close + 1
          /\ d.rows[t].low = d.rows[t].close - 1
          /\ t > 1 => d.rows[t - 1].close < d.rows[t].close

\* the bar t is long, entered at its close, stopped at the lowest low of the
\* exit_period bars before it
LongAtCloseWithChannelStop(self, d, rows, t) ==
    /\ rows[t].signal = 1
    /\ rows[t].entry_price = R(d.rows[t].close)
    /\ IsMinOfPreceding(d, "low", t, self.exit_period, rows[t].stop_price)

\* C12 as stated: on every strictly rising 300-bar series with high =
\* close + 1 and low = close - 1 the default Donchian variant marks the
\* first bar after the 50-bar window (index 50) long, with that bar's close
\* as entry price and the lowest low of the 25 preceding bars as stop.
C12_RisingSeriesBreaksOut ==
    strategy = Donchian_init(EmptyConfig) /\ IsRisingScenario(df) /\ frame.kind = "ok"
        => LongAtCloseWithChannelStop(strategy, df, frame.rows, strategy.entry_period + 1)

\* C12 amended: on such a series no bar up to index 49 is marked, and the
\* bar at index 50 is long, with its close as entry price and the lowest
\* low of the 25 preceding bars as stop, exactly when its close is more
\* than 1 above the close before it, that is above the highest of the 50
\* preceding highs.
C12_RisingSeriesBreaksOutAboveHigh ==
    strategy = Donchian_init(EmptyConfig) /\ IsRisingScenario(df) /\ frame.kind = "ok"
        => LET t == strategy.entry_period + 1
           IN  /\ \A u \in 1..(t - 1) : frame.rows[u].signal = 0
               /\ df.rows[t].close > df.rows[t - 1].close + 1
                    => LongAtCloseWithChannelStop(strategy, df, frame.rows, t)
               /\ df.rows[t].close <= df.rows[t - 1].close + 1 => frame.rows[t] = FlatRow

\* a rising series whose bar at index 50 closes above the previous high and is long
C12_Witness ==
    /\ strategy = Donchian_init(EmptyConfig)
    /\ IsRisingScenario(df)
    /\ frame.kind = "ok"
    /\ df.rows[strategy.entry_period + 1].close > df.rows[strategy.entry_period].high
    /\ frame.rows[strategy.entry_period + 1].signal = 1
    /\ frame.rows[strategy.entry_period + 1].stop_price
         = R(df.rows[strategy.entry_period + 1 - strategy.exit_period].low)

\* a series of ScenarioLen bars with open = high = low = close = one price
\* and one volume on every bar
IsFlatScenario(d) ==
    /\ WellFormed(d)
    /\ Len(d.rows) = ScenarioLen
    /\ \A t \in 1..Len(d.rows) :
          /\ d.rows[t] = d.rows[1]
          /\ d.rows[t].open = d.rows[t].close
          /\ d.rows[t].high = d.rows[t].close
          /\ d.rows[t].low = d.rows[t].close

\* C13: on a constant-price 300-bar series with constant volume,
\* generate_signals of each of the four variants in its default
\* configuration returns a frame whose signal is 0 on every bar.
C13_FlatSeriesStaysFlat ==
    strategy \in DefaultStrategies /\ IsFlatScenario(df) /\ frame # NotCalled
        => /\ frame.kind = "ok"
           /\ \A t \in 1..Len(frame.rows) : frame.rows[t].signal = 0

\* a constant series liquid enough for the default HTF dollar-volume filter,
\* evaluated by the HTF variant, every bar flat
C13_Witness ==
    /\ strategy = HTF_init(EmptyConfig)
    /\ IsFlatScenario(df)
    /\ frame.kind = "ok"
    /\ Len(frame.rows) = ScenarioLen
    /\ HTF_liquidity_ok(strategy, HTF_calculate_indicators(strategy, df), ScenarioLen)
    /\ frame.rows[ScenarioLen].signal = 0

\* sum of f over lo..hi
RECURSIVE Total(_, _, _)
Total(f, lo, hi) ==
    IF lo > hi THEN 0
    ELSE IF lo = hi THEN f[lo]
    ELSE Total(f, lo, (lo + hi) \div 2) + Total(f, ((lo + hi) \div 2) + 1, hi)

\* the filters of the HTF entry, each stated on the bars themselves
AvgDollarVolumeAtLeast(self, d, t) ==
    LET L == self.volume_lookback
    IN  /\ t >= L
        /\ Total([j \in 1..t |-> d.rows[j].close * d.rows[j].volume], t - L + 1, t)
              >= self.min_dollar_volume * L

CloseAboveSMA(d, t, n) ==
    t >= n /\ n * d.rows[t].close > Total([j \in 1..t |-> d.rows[j].close], t - n + 1, t)

CloseAtOrAboveSMA(d, t, n) ==
    t >= n /\ n * d.rows[t].close >= Total([j \in 1..t |-> d.rows[j].close], t - n + 1, t)

PoleMoveAtLeast(self, d, t) ==
    /\ t > self.pole_lookback
    /\ RGe(RSub(Rat(d.rows[t].close, d.rows[t - self.pole_lookback].close), R(1)),
           self.min_pole_move)

WithinTenPercentOfHigh(d, t, n) ==
    /\ t >= n
    /\ \A j \in (t - n + 1)..t : 10 * d.rows[t].close >= 9 * d.rows[j].high

BreaksPriorHigh(d, t, n) ==
    t > n /\ \A j \in (t - n)..(t - 1) : d.rows[t].high > d.rows[j].high

VolumeRatioAtLeast(self, d, t) ==
    LET L == self.volume_lookback
    IN  /\ t >= L
        /\ RGe(R(d.rows[t].volume * L),
               RMul(self.volume_breakout_multiplier,
                    R(Total([j \in 1..t |-> d.rows[j].volume], t - L + 1, t))))

AllHTFFilters(self, d, t) ==
    /\ AvgDollarVolumeAtLeast(self, d, t)
    /\ CloseAboveSMA(d, t, 50)
    /\ PoleMoveAtLeast(self, d, t)
    /\ WithinTenPercentOfHigh(d, t, 20)
    /\ RGe(R(d.rows[t].close), ewm_mean(Col(d, "close"), 10)[t])
    /\ CloseAtOrAboveSMA(d, t, 20)
    /\ BreaksPriorHigh(d, t, 20)
    /\ VolumeRatioAtLeast(self, d, t)

\* C14: the HTF variant marks a bar long exactly when, on that bar, the
\* average dollar volume is at least min_dollar_volume, the close is above
\* the 50-bar SMA, the pole move is at least min_pole_move, the close is at
\* least 0.90 of the 20-bar high, the close is at or above the 10-EMA and
\* the 20-SMA, the high is above the 20-bar high of the bar before, and the
\* volume ratio is at least the multiplier; a false or undefined filter
\* leaves the bar flat; a long row has volume_ratio >= the multiplier and
\* the bar's own low as stop.
C14_AllFiltersOnTheSameBar ==
    strategy.variant = "HTF" /\ frame.kind = "ok"
        => LET ind == HTF_calculate_indicators(strategy, df)
           IN  \A t \in 1..Len(frame.rows) :
                 /\ frame.rows[t].signal \in {0, 1}
                 /\ frame.rows[t].signal = 1 <=> AllHTFFilters(strategy, df, t)
                 /\ frame.rows[t].signal = 0 => frame.rows[t] = FlatRow
                 /\ frame.rows[t].signal = 1
                      => /\ RGe(ind.volume_ratio[t], strategy.volume_breakout_multiplier)
                         /\ frame.rows[t].stop_price = R(df.rows[t].low)

\* a long bar, followed by a bar that only fails to break the prior 20-bar
\* high and is flat
C14_Witness ==
    /\ strategy.variant = "HTF"
    /\ frame.kind = "ok"
    /\ \E t \in 2..Len(frame.rows) :
          /\ frame.rows[t - 1].signal = 1
          /\ AllHTFFilters(strategy, df, t - 1)
          /\ frame.rows[t].signal = 0
          /\ ~BreaksPriorHigh(df, t, 20)
          /\ AvgDollarVolumeAtLeast(strategy, df, t)
          /\ CloseAboveSMA(df, t, 50)
          /\ PoleMoveAtLeast(strategy, df, t)
          /\ WithinTenPercentOfHigh(df, t, 20)
          /\ CloseAtOrAboveSMA(df, t, 20)
          /\ VolumeRatioAtLeast(strategy, df, t)

\* the column fast is at or below the column slow on bar t-1 and above it on bar t
CrossesAbove(fast, slow, t) ==
    /\ t >= 2
    /\ RLe(fast[t - 1], slow[t - 1])
    /\ RGt(fast[t], slow[t])

\* C15: the MA-crossover variant never marks a bar short; it marks bar t
\* long exactly when fastEMA[t-1] <= slowEMA[t-1], fastEMA[t] > slowEMA[t]
\* and close[t] > SMA(regime_ma)[t]; a cross-above on a bar whose close is
\* at or below the regime SMA, or whose regime SMA is undefined, is flat;
\* the stop of a long row is the EMA of period stop_ma on that bar.
C15_CrossAboveInRegime ==
    strategy.variant = "MA101" /\ frame.kind = "ok"
        => LET fast == ewm_mean(Col(df, "close"), strategy.fast_ema)
               slow == ewm_mean(Col(df, "close"), strategy.slow_ema)
               stop == ewm_mean(Col(df, "close"), strategy.stop_ma)
           IN  \A t \in 1..Len(frame.rows) :
                 /\ frame.rows[t].signal \in {0, 1}
                 /\ frame.rows[t].signal = 1
                      <=> /\ CrossesAbove(fast, slow, t)
                          /\ CloseAboveSMA(df, t, strategy.regime_ma)
                 /\ frame.rows[t].signal = 0 => frame.rows[t] = FlatRow
                 /\ frame.rows[t].signal = 1
                      => /\ frame.rows[t].stop_price = stop[t]
                         /\ frame.rows[t].entry_price = R(df.rows[t].close)

\* a cross-above on a bar whose regime SMA is defined and not below the close
C15_Witness ==
    /\ strategy.variant = "MA101"
    /\ frame.kind = "ok"
    /\ LET fast == ewm_mean(Col(df, "close"), strategy.fast_ema)
           slow == ewm_mean(Col(df, "close"), strategy.slow_ema)
       IN  \E t \in 1..Len(frame.rows) :
             /\ t >= strategy.regime_ma
             /\ CrossesAbove(fast, slow, t)
             /\ ~CloseAboveSMA(df, t, strategy.regime_ma)
             /\ frame.rows[t].signal = 0

\* C16: the Donchian variant marks a bar short only when allow_shorts is
\* enabled, and then exactly the bars whose close is below the lowest low
\* of the N preceding bars; with allow_shorts disabled no bar is short; no
\* bar is both a long and a short breakout, so every long breakout is still
\* a long row after the short assignment.
C16_ShortsOnlyWhenAllowed ==
    strategy.variant = "Donchian" /\ frame.kind = "ok"
        => LET N == strategy.entry_period
           IN  \A t \in 1..Len(frame.rows) :
                 /\ frame.rows[t].signal = -1
                      <=> strategy.allow_shorts /\ BelowPrecedingLows(df, t, N)
                 /\ ~(ExceedsPrecedingHighs(df, t, N) /\ BelowPrecedingLows(df, t, N))
                 /\ ExceedsPrecedingHighs(df, t, N)
                      => /\ frame.rows[t].signal = 1
                         /\ frame.rows[t].reason.fmt = "{}-day breakout high"
                 /\ frame.rows[t].signal = -1
                      => frame.rows[t].entry_price = R(df.rows[t].close)

\* shorts allowed: a short row after a long row, over a window of more than one bar
C16_Witness ==
    /\ strategy.variant = "Donchian"
    /\ strategy.allow_shorts
    /\ strategy.entry_period > 1
    /\ frame.kind = "ok"
    /\ \E t \in 1..Len(frame.rows) :
          /\ frame.rows[t].signal = -1
          /\ BelowPrecedingLows(df, t, strategy.entry_period)
          /\ \E u \in 1..(t - 1) : frame.rows[u].signal = 1

\* true range of bar j: the largest of high - low, |high - previous close|
\* and |low - previous close|, the last two only where a previous bar exists
TrueRange(d, j) ==
    LET hl == d.rows[j].high - d.rows[j].low
        hc == IF j > 1 THEN Abs(d.rows[j].high - d.rows[j - 1].close) ELSE hl
        lc == IF j > 1 THEN Abs(d.rows[j].low - d.rows[j - 1].close) ELSE hl
        m  == IF hl >= hc THEN hl ELSE hc
    IN  IF m >= lc THEN m ELSE lc

\* v is close[t] + sign * k * ATR(n)[t], undefined before n bars are seen
IsCloseOffsetByATR(d, t, n, k, sign, v) ==
    IF t >= n
    THEN v = RAdd(R(d.rows[t].close),
                  RMul(RMul(R(sign), k),
                       Rat(Total([j \in 1..t |-> TrueRange(d, j)], t - n + 1, t), n)))
    ELSE IsNaN(v)

\* C17: the stop of a Donchian long row is the lowest low of the
\* exit_period bars before it when use_atr_stop is false and close -
\* atr_stop_multiple * ATR(atr_period) when it is true; the stop of a short
\* row is the highest high of the exit_period bars before it, or close +
\* atr_stop_multiple * ATR; the stop is undefined where those bars are not
\* all there; one evaluation uses one mode for all its rows.
C17_StopFollowsMode ==
    strategy.variant = "Donchian" /\ frame.kind = "ok"
        => LET M == strategy.exit_period
               P == strategy.atr_period
               k == strategy.atr_stop_multiple
           IN  \A t \in 1..Len(frame.rows) :
                 LET stop == frame.rows[t].stop_price
                 IN  /\ frame.rows[t].signal = 1 /\ ~strategy.use_atr_stop
                          => IF t > M THEN IsMinOfPreceding(df, "low", t, M, stop)
                             ELSE IsNaN(stop)
                     /\ frame.rows[t].signal = 1 /\ strategy.use_atr_stop
                          => IsCloseOffsetByATR(df, t, P, k, -1, stop)
                     /\ frame.rows[t].signal = -1 /\ ~strategy.use_atr_stop
                          => IF t > M THEN IsMaxOfPreceding(df, "high", t, M, stop)
                             ELSE IsNaN(stop)
                     /\ frame.rows[t].signal = -1 /\ strategy.use_atr_stop
                          => IsCloseOffsetByATR(df, t, P, k, 1, stop)

\* ATR mode: a long row and a short row whose stops are defined and differ
\* from the exit channel
C17_Witness ==
    /\ strategy.variant = "Donchian"
    /\ strategy.use_atr_stop
    /\ frame.kind = "ok"
    /\ LET ind == Donchian_calculate_indicators(strategy, df)
       IN  /\ \E t \in 1..Len(frame.rows) :
                 /\ frame.rows[t].signal = 1
                 /\ IsDefined(frame.rows[t].stop_price)
                 /\ frame.rows[t].stop_price # ind.exit_low[t]
           /\ \E t \in 1..Len(frame.rows) :
                 /\ frame.rows[t].signal = -1
                 /\ IsDefined(frame.rows[t].stop_price)
                 /\ frame.rows[t].stop_price # ind.exit_high[t]

\* the symbols of the list that have data and a latest signal, in list order
SymbolsWithSignal(self, symbol_list, data_dict) ==
    LET HasSignal(sym) ==
            /\ sym \in DOMAIN data_dict
            /\ check_current_signal(self, WithSymbol(data_dict[sym], sym)) # None
    IN  SelectSeq(symbol_list, HasSignal)

\* C18: the screen operation of each of the four variants returns, for a
\* symbol list and a symbol-to-series mapping, exactly the
\* check_current_signal records of the symbols whose latest signal is not
\* None, each tagged with its symbol, in symbol-list order, symbols without
\* data skipped; the record of a symbol is what that symbol's series alone
\* gives.
C18_ScreenCollectsRecords ==
    screen # NotCalled /\ screen.result # NotCalled
        => LET sel == SymbolsWithSignal(strategy, screen.symbol_list, screen.data_dict)
           IN  /\ screen.result.kind = "return"
               /\ Len(screen.result.value) = Len(sel)
               /\ \A i \in 1..Len(sel) :
                     /\ screen.result.value[i].symbol = sel[i]
                     /\ screen.result.value[i]
                          = check_current_signal(
                                strategy, WithSymbol(screen.data_dict[sel[i]], sel[i]))

\* C18 for the one variant that defines the operation
C18_HTFScreenCollectsRecords ==
    strategy.variant = "HTF" => C18_ScreenCollectsRecords

\* the (symbol, strategy) pairs of a scan in the order of the two loops
ScanPair(sc, k) ==
    << sc.symbols[((k - 1) \div Len(sc.selected_strategies)) + 1],
       sc.selected_strategies[((k - 1) % Len(sc.selected_strategies)) + 1] >>

\* what one pair gives on its own: an error, nothing, or a record
PairOutcome(sc, pair) ==
    LET loaded == sc.data[pair[1]]
    IN  IF loaded.kind = "raise" THEN loaded
        ELSE IF Len(loaded.df.rows) < MinScanBars THEN None
        ELSE check_current_signal(StrategyClass(pair[2]), WithSymbol(loaded.df, pair[1]))

RECURSIVE PairOutcomes(_, _)
PairOutcomes(sc, k) ==
    IF k = 0 THEN <<>> ELSE Append(PairOutcomes(sc, k - 1), PairOutcome(sc, ScanPair(sc, k)))

WithinRisk(sc, r) == RLe(sc.min_risk, r.risk_per_share) /\ RLe(r.risk_per_share, sc.max_risk)

\* the records of the pairs that give a record within the risk range, each
\* with the strategy id of its pair, in the order of the pairs
RECURSIVE Qualifying(_, _)
Qualifying(sc, k) ==
    IF k = 0 THEN <<>>
    ELSE LET outcome == PairOutcome(sc, ScanPair(sc, k))
         IN  IF outcome.kind = "record" /\ WithinRisk(sc, outcome)
             THEN Append(Qualifying(sc, k - 1),
                         outcome @@ [strategy_id |-> ScanPair(sc, k)[2]])
             ELSE Qualifying(sc, k - 1)

PairCount(sc) == Len(sc.symbols) * Len(sc.selected_strategies)

\* C19: an error raised while loading or evaluating one (symbol, strategy)
\* pair never aborts the scan: until the result is stored the scan of a
\* non-empty universe is inside its two loops, where it always has a next
\* step, and the stored result holds
\* no record of a failing pair and the qualifying record of every other
\* pair, those of the other strategies on the same symbol and of all later
\* symbols included.
C19_ScanSurvivesFailingPairs ==
    scan # NotCalled /\ scan.symbols # <<>>
        => /\ scan.pc \in {"start", "symbol", "strategy", "done"}
           /\ scan.pc = "symbol" => scan.idx \in 1..(Len(scan.symbols) + 1)
           /\ scan.pc = "strategy"
                => /\ scan.idx \in 1..Len(scan.symbols)
                   /\ scan.sidx \in 1..(Len(scan.selected_strategies) + 1)
           /\ scan.pc = "done"
                => scan.last_scan = Qualifying(scan, PairCount(scan))

\* a finished scan in which a pair failed before another strategy on the
\* same symbol and before a later symbol, and both of those gave a record
C19_Witness ==
    /\ scan # NotCalled
    /\ scan.pc = "done"
    /\ LET outcomes == PairOutcomes(scan, PairCount(scan))
       IN  \E k \in 1..PairCount(scan) :
             /\ outcomes[k].kind = "raise"
             /\ \E j \in (k + 1)..PairCount(scan) :
                   /\ ScanPair(scan, j)[1] = ScanPair(scan, k)[1]
                   /\ \E i \in 1..Len(scan.last_scan) :
                         /\ scan.last_scan[i].symbol = ScanPair(scan, j)[1]
                         /\ scan.last_scan[i].strategy_id = ScanPair(scan, j)[2]
             /\ \E i \in 1..Len(scan.last_scan) :
                   scan.last_scan[i].symbol # ScanPair(scan, k)[1]

\* C20: the result of the scan holds a returned record exactly when
\* min_risk <= risk_per_share <= max_risk, both bounds included: a record
\* whose risk equals a bound is kept; every stored record is within the
\* range and carries the id of the strategy that returned it.
C20_ResultWithinRiskRange ==
    scan # NotCalled /\ scan.pc = "done"
        => LET outcomes == PairOutcomes(scan, PairCount(scan))
           IN  /\ \A i \in 1..Len(scan.last_scan) :
                     /\ RLe(scan.min_risk, scan.last_scan[i].risk_per_share)
                     /\ RLe(scan.last_scan[i].risk_per_share, scan.max_risk)
                     /\ \E k \in 1..PairCount(scan) :
                           /\ scan.last_scan[i].strategy_id = ScanPair(scan, k)[2]
                           /\ scan.last_scan[i] = outcomes[k] @@ [strategy_id |-> ScanPair(scan, k)[2]]
               /\ \A k \in 1..PairCount(scan) :
                     outcomes[k].kind = "record"
                         => (WithinRisk(scan, outcomes[k])
                               <=> \E i \in 1..Len(scan.last_scan) :
                                     scan.last_scan[i]
                                         = outcomes[k] @@ [strategy_id |-> ScanPair(scan, k)[2]])

\* a finished scan that kept a record whose risk equals a bound of the
\* range and dropped a record outside the range
C20_Witness ==
    /\ scan # NotCalled
    /\ scan.pc = "done"
    /\ \E i \in 1..Len(scan.last_scan) :
          \/ scan.last_scan[i].risk_per_share = scan.min_risk
          \/ scan.last_scan[i].risk_per_share = scan.max_risk
    /\ LET outcomes == PairOutcomes(scan, PairCount(scan))
       IN  \E k \in 1..PairCount(scan) :
             outcomes[k].kind = "record" /\ ~WithinRisk(scan, outcomes[k])

\* the columns an operation derives when it runs to its end
DerivedColumns(op, self) ==
    FirstColumns(indicator_columns(self), Len(indicator_columns(self)))
        \cup (IF op = "calculate_indicators" THEN {} ELSE signal_columns(self))

\* C21: calculate_indicators, generate_signals, check_current_signal and
\* screen_universe leave the caller's series as it was, whether they return
\* or raise: same columns (no indicator, signal or symbol column), same
\* index, same rows; the derived columns are on another object, a copy.
C21_CallerSeriesUnchanged ==
    call # NotCalled
        => /\ call.op \in Operations
                => /\ df = call.before
                   /\ call.returned.id # "caller"
                   /\ call.returned.val.rows = df.rows
                   /\ call.outcome = "ok"
                        => DerivedColumns(call.op, strategy) \subseteq call.returned.val.cols
           /\ call.op = "screen_universe" => screen.data_dict = call.before

\* generate_signals returned a frame with indicator and signal columns for a
\* caller's series of bars that has only its own columns
C21_Witness ==
    /\ call # NotCalled
    /\ call.op = "generate_signals"
    /\ call.outcome = "ok"
    /\ Len(df.rows) > 0
    /\ df.cols = ColumnNames
    /\ "signal" \in call.returned.val.cols
    /\ indicator_columns(strategy)[1] \in call.returned.val.cols

\* the window of period bars that ends at bar t
Window(t, period) == (t - period + 1)..t

\* no close of the window is below (above) the close before it; the first
\* bar of a series has no close before it
NoLossIn(d, t, period) ==
    \A j \in Window(t, period) : j > 1 => d.rows[j].close >= d.rows[j - 1].close

NoGainIn(d, t, period) ==
    \A j \in Window(t, period) : j > 1 => d.rows[j].close <= d.rows[j - 1].close

\* C22: on every bar whose trailing window is filled, _calculate_rsi gives
\* a defined number in [0, 100], and exactly 100 whenever the trailing
\* average loss is zero, a window without any move included.
C22_RsiWithinBounds ==
    call # NotCalled /\ call.op = "_calculate_rsi"
        => \A t \in call.period..Len(df.rows) :
              /\ IsDefined(call.result[t])
              /\ RLe(R(0), call.result[t])
              /\ RLe(call.result[t], R(100))
              /\ NoLossIn(df, t, call.period) => call.result[t] = R(100)

\* what holds of _calculate_rsi: the same on every filled window with a
\* move in it, and an undefined value on a filled window without any move
C22_RsiWithinBoundsOnMoves ==
    call # NotCalled /\ call.op = "_calculate_rsi"
        => \A t \in call.period..Len(df.rows) :
              IF NoLossIn(df, t, call.period) /\ NoGainIn(df, t, call.period)
              THEN IsNaN(call.result[t])
              ELSE /\ IsDefined(call.result[t])
                   /\ RLe(R(0), call.result[t])
                   /\ RLe(call.result[t], R(100))
                   /\ NoLossIn(df, t, call.period) <=> call.result[t] = R(100)

\* a to the power n
RECURSIVE RPow(_, _)
RPow(a, n) == IF n = 0 THEN R(1) ELSE RMul(a, RPow(a, n - 1))

\* the seed-then-recurrence definition unfolded:
\* (1 - a)^(t-1) * close[1] + sum over j in 2..t of a * (1 - a)^(t-j) * close[j]
UnfoldedEma(d, a, t) ==
    LET term(j) == IF j = 1 THEN RMul(RPow(RSub(R(1), a), t - 1), R(d.rows[1].close))
                   ELSE RMul(RMul(a, RPow(RSub(R(1), a), t - j)), R(d.rows[j].close))
    IN  SumRange([j \in 1..t |-> term(j)], 1, t)

\* C23: the EMA column is EMA[1] = close[1],
\* EMA[t] = a * close[t] + (1 - a) * EMA[t-1] with a = 2 / (period + 1); it is
\* defined on every bar from the first, and for period 1 it is the close.
C23_EmaSeedThenRecurrence ==
    call # NotCalled /\ call.op = "ema"
        => LET a == Rat(2, call.period + 1)
           IN  /\ Len(call.result) = Len(df.rows)
               /\ \A t \in 1..Len(df.rows) :
                     /\ IsDefined(call.result[t])
                     /\ t = 1 => call.result[t] = R(df.rows[1].close)
                     /\ t > 1 => call.result[t]
                                   = RAdd(RMul(a, R(df.rows[t].close)),
                                          RMul(RSub(R(1), a), call.result[t - 1]))
                     /\ call.result[t] = UnfoldedEma(df, a, t)
                     /\ call.period = 1 => call.result[t] = R(df.rows[t].close)

\* an EMA of period 2 or more over closes that move, away from the close
\* on its last bar
C23_Witness ==
    /\ call # NotCalled
    /\ call.op = "ema"
    /\ call.period > 1
    /\ Len(df.rows) >= 3
    /\ call.result[Len(df.rows)] # R(df.rows[Len(df.rows)].close)
    /\ call.result[Len(df.rows)] # call.result[Len(df.rows) - 1]

\* calculate_position_size gives 0 shares for these prices, whatever the
\* sizing parameters and the equity
SizedToZero(entry_price, stop_price) ==
    \A ps \in PositionSizings, rc \in RiskConfigs, q \in Equities :
        calculate_position_size(ps, rc, entry_price, stop_price, q) = Return(0)

\* C24: an HTF bar on which all entry filters hold and whose high equals
\* its low is a long row with entry price = stop price; as the latest bar it
\* is returned by check_current_signal with risk_per_share 0; a record of
\* any variant with entry price = stop price has risk_per_share 0, and
\* calculate_position_size returns 0 shares for its prices.
C24_ZeroRiskSignalIsEmitted ==
    /\ strategy.variant = "HTF" /\ frame.kind = "ok"
          => \A t \in 1..Len(frame.rows) :
                AllHTFFilters(strategy, df, t) /\ df.rows[t].high = df.rows[t].low
                    => /\ frame.rows[t].signal = 1
                       /\ frame.rows[t].entry_price = R(df.rows[t].high)
                       /\ frame.rows[t].stop_price = frame.rows[t].entry_price
    /\ strategy.variant = "HTF" /\ record # NotCalled /\ record.kind # "raise"
          => LET n == Len(df.rows)
             IN  n > 0 /\ AllHTFFilters(strategy, df, n) /\ df.rows[n].high = df.rows[n].low
                     => /\ record.kind = "record"
                        /\ record.entry_price = record.stop_price
    /\ record.kind = "record" /\ record.entry_price = record.stop_price
          => /\ record.risk_per_share = R(0)
             /\ SizedToZero(record.entry_price, record.stop_price)

\* the HTF record of a breakout bar whose high equals its low
C24_Witness ==
    /\ strategy.variant = "HTF"
    /\ record.kind = "record"
    /\ df.rows[Len(df.rows)].high = df.rows[Len(df.rows)].low
    /\ AllHTFFilters(strategy, df, Len(df.rows))
    /\ record.risk_per_share = R(0)
    /\ SizedToZero(record.entry_price, record.stop_price)

\* every bar of the series has low <= high
LowAtMostHigh(d) == \A t \in 1..Len(d.rows) : d.rows[t].low <= d.rows[t].high

\* C25: for the Donchian variant with the channel stop, exit_period <=
\* entry_period and low <= high on every bar, every long row has its stop
\* strictly below its entry, every short row has its stop strictly above
\* its entry, and a returned record has risk_per_share > 0.
C25_ChannelStopOnTheLosingSide ==
    (/\ strategy.variant = "Donchian"
     /\ ~strategy.use_atr_stop
     /\ strategy.exit_period <= strategy.entry_period
     /\ LowAtMostHigh(df))
        => /\ frame.kind = "ok"
                => \A t \in 1..Len(frame.rows) :
                      /\ frame.rows[t].signal = 1
                           => RLt(frame.rows[t].stop_price, frame.rows[t].entry_price)
                      /\ frame.rows[t].signal = -1
                           => RGt(frame.rows[t].stop_price, frame.rows[t].entry_price)
           /\ record.kind = "record" => RGt(record.risk_per_share, R(0))

\* a channel-stop frame with a long row and a short row, and a record
C25_Witness ==
    /\ strategy.variant = "Donchian"
    /\ ~strategy.use_atr_stop
    /\ strategy.exit_period < strategy.entry_period
    /\ LowAtMostHigh(df)
    /\ frame.kind = "ok"
    /\ \E t \in 1..Len(frame.rows) : frame.rows[t].signal = 1
    /\ \E t \in 1..Len(frame.rows) : frame.rows[t].signal = -1
    /\ record.kind = "record"
    /\ RGt(record.risk_per_share, R(0))

\* the series loaded for the symbol is empty or has fewer than 200 bars
TooShort(sc, symbol) ==
    sc.data[symbol].kind = "ok" /\ Len(sc.data[symbol].df.rows) < 200

\* C26: the scan never runs a strategy on a symbol whose loaded series is
\* empty or has fewer than 200 bars; the result holds no record of such a
\* symbol, for any selected strategy, and it holds the qualifying records
\* of the symbols after it.
C26_ShortSeriesAreSkipped ==
    scan # NotCalled
        => /\ scan.pc = "strategy"
                => /\ ~TooShort(scan, scan.symbols[scan.idx])
                   /\ Len(scan.df.rows) >= 200
           /\ \A i \in 1..Len(scan.all_signals) :
                 ~TooShort(scan, scan.all_signals[i].symbol)
           /\ scan.pc = "done"
                => /\ \A i \in 1..Len(scan.last_scan) :
                         ~TooShort(scan, scan.last_scan[i].symbol)
                   /\ \A k \in 1..PairCount(scan) :
                         LET pair    == ScanPair(scan, k)
                             outcome == PairOutcome(scan, pair)
                         IN  (/\ \E j \in 1..(k - 1) : TooShort(scan, ScanPair(scan, j)[1])
                              /\ outcome.kind = "record"
                              /\ WithinRisk(scan, outcome))
                                 => \E i \in 1..Len(scan.last_scan) :
                                       /\ scan.last_scan[i].symbol = pair[1]
                                       /\ scan.last_scan[i].strategy_id = pair[2]

\* a finished scan whose first symbol has a 199-bar series that ends on a
\* breakout, on which a strategy would give a record, and whose result has
\* a record of the symbol after it
C26_Witness ==
    /\ scan # NotCalled
    /\ scan.pc = "done"
    /\ Len(scan.symbols) = 2
    /\ TooShort(scan, scan.symbols[1])
    /\ \E id \in DOMAIN STRATEGY_CLASSES :
          check_current_signal(StrategyClass(id),
                               WithSymbol(scan.data[scan.symbols[1]].df, scan.symbols[1])).kind
              = "record"
    /\ \E i \in 1..Len(scan.last_scan) : scan.last_scan[i].symbol = scan.symbols[2]

====
